---- MODULE Spec2Model ----
(***************************************************************************)
(* Recruitment Fit Score (RFS): the scoring and classification pipeline    *)
(* of src/app.py (v3 Adaptive) and of its variant src/apptest.py (v3.1).   *)
(*                                                                         *)
(* Representation.                                                         *)
(*   - A text is a TLA+ string; the Python string methods the code uses    *)
(*     (strip, lower, startswith, in, split, replace, re.sub, re.search)   *)
(*     are computed character by character.  The module text is ASCII, so  *)
(*     the three non-ASCII characters the code handles are written with    *)
(*     stand-in characters: EnDash, EmDash and GeSign.                     *)
(*   - A cell of the uploaded table is a record [t, s]: t = "str" (a text  *)
(*     s), t = "nan" (a missing value) or t = "num" (a number whose        *)
(*     str() is s).                                                        *)
(*   - A data frame is a sequence of rows; a row is a function from the    *)
(*     column names to the values, "index" being the pandas index label.   *)
(*   - Points are exact rationals held in thirtieths of a point (Unit),    *)
(*     the RFS and the values label_band compares are in hundredths.       *)
(***************************************************************************)
EXTENDS Integers, Sequences, FiniteSets, TLC

VARIABLES
    variant,        \* "app" (src/app.py) or "apptest" (src/apptest.py)
    pc,             \* position of the script run
    secrets,        \* st.secrets: a record of the entries of the secrets file
    preset_choice,  \* the sidebar radio
    custom_mode,    \* the "Customize weights" checkbox
    custom,         \* the values typed into the custom-mode widgets
    equity_on,      \* the "Enable Equity Reserve" checkbox
    colmap,         \* role -> selected column (NONE when not mapped)
    df,             \* the uploaded table
    prm,            \* the resolved parameters (thr_admit, ..., sector_uplift)
    work,           \* the working data frame
    pretty,         \* the review view (st.dataframe)
    download,       \* the export artifact (CSV)
    SALT,           \* the module global SALT
    uploaded,       \* whether a file was given to st.file_uploader
    args,           \* arguments of a direct call of a helper
    ret             \* its result

vars == <<variant, pc, secrets, preset_choice, custom_mode, custom, equity_on,
          colmap, df, prm, work, pretty, download, SALT, uploaded, args, ret>>

-----------------------------------------------------------------------------
(* Python string methods                                                   *)

EnDash == "~"     \* stands for U+2013
EmDash == "^"     \* stands for U+2014
GeSign == "}"     \* stands for U+2265

Ch(s, i) == SubSeq(s, i, i)

IsSpace(c) == c \in {" ", "\t"}

IsDigit(c) == c \in {"0", "1", "2", "3", "4", "5", "6", "7", "8", "9"}

UpperCase == <<"A", "B", "C", "D", "E", "F", "G", "H", "I", "J", "K", "L", "M",
               "N", "O", "P", "Q", "R", "S", "T", "U", "V", "W", "X", "Y", "Z">>

LowerCase == <<"a", "b", "c", "d", "e", "f", "g", "h", "i", "j", "k", "l", "m",
               "n", "o", "p", "q", "r", "s", "t", "u", "v", "w", "x", "y", "z">>

IsLetter(c) == \E i \in 1..26 : c = UpperCase[i] \/ c = LowerCase[i]

\* \w of the re module
IsWordChar(c) == IsLetter(c) \/ IsDigit(c) \/ c = "_"

LowerChar(c) ==
    IF \E i \in 1..26 : c = UpperCase[i]
    THEN LowerCase[CHOOSE i \in 1..26 : c = UpperCase[i]]
    ELSE c

RECURSIVE MapChars(_, _, _)
\* s with every character c replaced by F(c), for F one of the three maps below
MapChars(s, kind, n) ==
    IF n = 0 THEN ""
    ELSE IF n = 1
         THEN LET c == Ch(s, 1) IN
              CASE kind = "lower"  -> LowerChar(c)
                [] kind = "dashes" -> IF c \in {EnDash, EmDash} THEN "-" ELSE c
                [] kind = "ge"     -> IF c = GeSign THEN ">=" ELSE c
                [] kind = "nospace" -> IF IsSpace(c) THEN "" ELSE c
                [] kind = "blank"  -> IF c = " " THEN "" ELSE c
         ELSE LET h == n \div 2 IN
              MapChars(SubSeq(s, 1, h), kind, h) \o MapChars(SubSeq(s, h + 1, n), kind, n - h)

\* str.lower()
lower(s) == MapChars(s, "lower", Len(s))

\* str.strip()
strip(s) ==
    LET keep == {i \in 1..Len(s) : ~IsSpace(Ch(s, i))} IN
    IF keep = {} THEN ""
    ELSE SubSeq(s, CHOOSE i \in keep : \A j \in keep : i <= j,
                   CHOOSE i \in keep : \A j \in keep : i >= j)

\* str.startswith(p)
startswith(s, p) == Len(p) <= Len(s) /\ SubSeq(s, 1, Len(p)) = p

\* k in x
contains(x, k) ==
    \E i \in 1..(Len(x) - Len(k) + 1) : SubSeq(x, i, i + Len(k) - 1) = k

\* any(k in x for k in ks)
any_in(x, ks) == \E j \in 1..Len(ks) : contains(x, ks[j])

\* len(t.split())
word_count(t) ==
    Cardinality({i \in 1..Len(t) :
                    /\ ~IsSpace(Ch(t, i))
                    /\ (i = 1 \/ IsSpace(Ch(t, i - 1)))})

\* bool(re.search(r"\b\d+\b", t))
has_number(t) ==
    \E i \in 1..Len(t) : \E j \in i..Len(t) :
        /\ \A k \in i..j : IsDigit(Ch(t, k))
        /\ (i = 1 \/ ~IsWordChar(Ch(t, i - 1)))
        /\ (j = Len(t) \/ ~IsWordChar(Ch(t, j + 1)))

-----------------------------------------------------------------------------
(* Cells                                                                   *)

Str(s) == [t |-> "str", s |-> s]
NaN == [t |-> "nan", s |-> "nan"]
Num(s) == [t |-> "num", s |-> s]

\* isinstance(x, str)
is_str(x) == x.t = "str"

\* pd.isna(x)
isna(x) == x.t = "nan"

-----------------------------------------------------------------------------
(* Units                                                                   *)

\* Points are held in thirtieths: _mot_total / 30.0 * w_motivation is exact.
Unit == 30

\* The RFS is rounded to two decimals: it is held in hundredths.
Cent == 100

Pts(n) == n * Unit

Min2(a, b) == IF a <= b THEN a ELSE b

Max2(a, b) == IF a >= b THEN a ELSE b

\* Series.clip(lower, upper)
clip(x, lo, hi) == Min2(Max2(x, lo), hi)

\* round(2) of a sum held in thirtieths, in hundredths.  A sum of thirtieths
\* is never half-way between two hundredths, so the tie rule plays no part.
round2(sumT) == (2 * Cent * sumT + Unit) \div (2 * Unit)

-----------------------------------------------------------------------------
(* Presets                                                                 *)

SECTORS == {"Education", "NGO/CSO", "Government", "Multilateral", "Private",
            "Farmer Org", "Consultancy", "Finance", "Other/Unclassified"}

PRESETS ==
    [balanced |->
        [thresh_admit |-> 55, thresh_priority |-> 70,
         equity_lower |-> 45, equity_upper |-> 54,
         w_motivation |-> 30, w_sector |-> 12, w_referee |-> 28,
         w_function |-> 15, w_time |-> 10, w_lang |-> 20, w_alumni |-> 10,
         min_motivation_words |-> 30,
         sector_uplift |->
            ("Education" :> 12) @@ ("NGO/CSO" :> 10) @@ ("Government" :> 8) @@
            ("Multilateral" :> 8) @@ ("Private" :> 8) @@ ("Farmer Org" :> 0) @@
            ("Consultancy" :> 8) @@ ("Finance" :> 8) @@ ("Other/Unclassified" :> 0)],
     lenient |->
        [thresh_admit |-> 40, thresh_priority |-> 60,
         equity_lower |-> 30, equity_upper |-> 39,
         w_motivation |-> 20, w_sector |-> 8, w_referee |-> 20,
         w_function |-> 12, w_time |-> 10, w_lang |-> 15, w_alumni |-> 10,
         min_motivation_words |-> 20,
         sector_uplift |->
            ("Education" :> 8) @@ ("NGO/CSO" :> 8) @@ ("Government" :> 6) @@
            ("Multilateral" :> 6) @@ ("Private" :> 6) @@ ("Farmer Org" :> 0) @@
            ("Consultancy" :> 6) @@ ("Finance" :> 6) @@ ("Other/Unclassified" :> 0)],
     strict |->
        [thresh_admit |-> 65, thresh_priority |-> 80,
         equity_lower |-> 55, equity_upper |-> 64,
         w_motivation |-> 35, w_sector |-> 10, w_referee |-> 30,
         w_function |-> 12, w_time |-> 12, w_lang |-> 25, w_alumni |-> 10,
         min_motivation_words |-> 75,
         sector_uplift |->
            ("Education" :> 10) @@ ("NGO/CSO" :> 8) @@ ("Government" :> 6) @@
            ("Multilateral" :> 6) @@ ("Private" :> 6) @@ ("Farmer Org" :> 0) @@
            ("Consultancy" :> 6) @@ ("Finance" :> 6) @@ ("Other/Unclassified" :> 0)],
     finance_optimized |->
        [thresh_admit |-> 45, thresh_priority |-> 65,
         equity_lower |-> 35, equity_upper |-> 44,
         w_motivation |-> 25, w_sector |-> 8, w_referee |-> 25,
         w_function |-> 20, w_time |-> 12, w_lang |-> 15, w_alumni |-> 10,
         min_motivation_words |-> 30,
         sector_uplift |->
            ("Education" :> 8) @@ ("NGO/CSO" :> 8) @@ ("Government" :> 8) @@
            ("Multilateral" :> 10) @@ ("Private" :> 12) @@ ("Farmer Org" :> 0) @@
            ("Consultancy" :> 10) @@ ("Finance" :> 15) @@ ("Other/Unclassified" :> 0)]]

apptest_PRESETS ==
    [finance_optimized |->
        [thresh_admit |-> 50, thresh_priority |-> 65,
         equity_lower |-> 40, equity_upper |-> 49,
         w_motivation |-> 15, w_sector |-> 5, w_referee |-> 28,
         w_function |-> 25, w_time |-> 10, w_lang |-> 15, w_alumni |-> 5,
         min_motivation_words |-> 30,
         sector_uplift |->
            ("Finance" :> 8) @@ ("Private" :> 5) @@ ("Government" :> 5) @@
            ("NGO/CSO" :> 5) @@ ("Farmer Org" :> 2) @@ ("Other/Unclassified" :> 0)],
     balanced |->
        [thresh_admit |-> 55, thresh_priority |-> 70,
         equity_lower |-> 45, equity_upper |-> 54,
         w_motivation |-> 25, w_sector |-> 10, w_referee |-> 28,
         w_function |-> 15, w_time |-> 10, w_lang |-> 20, w_alumni |-> 5,
         min_motivation_words |-> 50,
         sector_uplift |->
            ("NGO/CSO" :> 10) @@ ("Government" :> 8) @@ ("Education" :> 8) @@
            ("Private" :> 5) @@ ("Farmer Org" :> 5) @@ ("Other/Unclassified" :> 0)]]

WEEKLY_TIME_BANDS ==
    {"<1h", "1" \o EnDash \o "2h", "2" \o EnDash \o "3h", GeSign \o "3h",
     "1-2h", "2-3h", ">=3h"}

LANG_BANDS == {"Basic/With support", "Working", "Fluent"}

\* dict.get(k, default)
dict_get(d, k, default) == IF k \in DOMAIN d THEN d[k] ELSE default

-----------------------------------------------------------------------------
(* Helpers of src/app.py                                                   *)
\* the hexadecimal digits; a digest is a sequence of them
HexDigits == <<"0", "1", "2", "3", "4", "5", "6", "7", "8", "9", "a", "b", "c", "d", "e", "f">>

\* the characters of a SHA-256 hexdigest and of a PID
DigestLen == 64
PidLen == 16

\* hashlib.sha256(v).hexdigest(), as a sequence of characters.  SHA-256 itself
\* is not computed: the characters stand for the digest's, and which text was
\* hashed is kept beside them (field sha256 of a PID), so that two PIDs are
\* equal exactly when the hashed texts are.
hexdigest(v) ==
    [k \in 1..DigestLen |-> HexDigits[(((Len(v) + 3) * k + (k \div 5)) % 16) + 1]]

\* normalize_email that trims and does not lower the case
normalize_email_no_fold(x) == IF isna(x) THEN "" ELSE strip(x.s)

normalize_email(x) == IF isna(x) THEN "" ELSE lower(strip(x.s))

\* sha256(SALT + value).hexdigest()[:16], taken as collision-free: the digest
\* is a token that is equal for equal salted inputs only.
hash_id(salt, value) ==
    [sha256 |-> salt \o value, hex |-> SubSeq(hexdigest(salt \o value), 1, PidLen)]

\* org_to_sector that looks for the Finance keywords first
org_to_sector_finance_first(org_text) ==
    IF ~is_str(org_text) \/ strip(org_text.s) = "" THEN "Other/Unclassified"
    ELSE LET x == lower(org_text.s) IN
         IF any_in(x, <<"bank", "finance", "microfinance">>) THEN "Finance"
         ELSE IF any_in(x, <<"universit", "school", "educat">>) THEN "Education"
         ELSE IF any_in(x, <<"ngo", "foundation", "association", "civil",
                             "non profit", "non-profit">>) THEN "NGO/CSO"
         ELSE IF any_in(x, <<"ministry", "gov", "municipal", "department of",
                             "bureau">>) THEN "Government"
         ELSE IF any_in(x, <<"united nations", "world bank", "fao", "ifad",
                             "ifpri", "undp", "unesco">>) THEN "Multilateral"
         ELSE IF any_in(x, <<"ltd", "company", "bv", "inc", "plc", "gmbh",
                             "sarl">>) THEN "Private"
         ELSE IF any_in(x, <<"farmer", "coop", "co-op", "cooperative">>) THEN "Farmer Org"
         ELSE IF any_in(x, <<"consult">>) THEN "Consultancy"
         ELSE "Other/Unclassified"

org_to_sector(org_text) ==
    IF ~is_str(org_text) \/ strip(org_text.s) = "" THEN "Other/Unclassified"
    ELSE LET x == lower(org_text.s) IN
         IF any_in(x, <<"universit", "school", "educat">>) THEN "Education"
         ELSE IF any_in(x, <<"ngo", "foundation", "association", "civil",
                             "non profit", "non-profit">>) THEN "NGO/CSO"
         ELSE IF any_in(x, <<"ministry", "gov", "municipal", "department of",
                             "bureau">>) THEN "Government"
         ELSE IF any_in(x, <<"united nations", "world bank", "fao", "ifad",
                             "ifpri", "undp", "unesco">>) THEN "Multilateral"
         ELSE IF any_in(x, <<"ltd", "company", "bv", "inc", "plc", "gmbh",
                             "sarl">>) THEN "Private"
         ELSE IF any_in(x, <<"farmer", "coop", "co-op", "cooperative">>) THEN "Farmer Org"
         ELSE IF any_in(x, <<"consult">>) THEN "Consultancy"
         ELSE IF any_in(x, <<"bank", "finance", "microfinance">>) THEN "Finance"
         ELSE "Other/Unclassified"

\* length_targets = (200, 300)
LengthTarget0 == 200
LengthTarget1 == 300

\* the scorer with the word-count gate one word lower
rubric_heuristic_score_short_gate(text, min_words) ==
    IF ~is_str(text) \/ strip(text.s) = "" THEN <<0, 0, 0>>
    ELSE IF word_count(strip(text.s)) < min_words - 1 THEN <<0, 0, 0>>
    ELSE LET tl == lower(strip(text.s))
             has_data == any_in(tl, <<"data", "dataset", "dashboard", "faostat",
                                      "survey", "indicator">>)
             has_role == any_in(tl, <<"lecturer", "extension", "officer", "analyst",
                                      "programme", "policy">>)
         IN <<(IF has_data THEN 3 ELSE 0) + (IF has_role THEN 1 ELSE 0),
              IF has_number(strip(text.s)) THEN 3 ELSE 0,
              IF has_data THEN 2 ELSE 0>>

rubric_heuristic_score(text, min_words) ==
    IF ~is_str(text) \/ strip(text.s) = "" THEN <<0, 0, 0>>
    ELSE
    LET t     == strip(text.s)
        words == word_count(t)
    IN
    IF words < min_words THEN <<0, 0, 0>>
    ELSE
    LET tl          == lower(t)
        has_numbers == has_number(t)
        has_when    == any_in(tl, <<"week", "month", "timeline", "plan", "schedule">>)
        has_where   == any_in(tl, <<"district", "province", "country", "region",
                                    "university", "ministry">>)
        has_data    == any_in(tl, <<"data", "dataset", "dashboard", "faostat",
                                    "survey", "indicator">>)
        has_role    == any_in(tl, <<"lecturer", "extension", "officer", "analyst",
                                    "programme", "policy">>)
        spec == (IF words >= LengthTarget0 THEN 4 ELSE 0)
              + (IF words >= LengthTarget1 THEN 2 ELSE 0)
              + (IF has_where \/ has_data THEN 3 ELSE 0)
              + (IF has_role THEN 1 ELSE 0)
        feas == (IF has_numbers THEN 3 ELSE 0)
              + (IF has_when THEN 4 ELSE 0)
              + (IF contains(tl, "pilot") \/ contains(tl, "test") THEN 2 ELSE 0)
              + (IF contains(tl, "5" \o EnDash \o "6 weeks") \/ contains(tl, "5-6 weeks")
                 THEN 1 ELSE 0)
        fs_keywords == <<"food system", "seed", "agric", "market", "value chain",
                         "policy", "extension", "nutrition", "farm">>
        keyword_count == Cardinality({j \in 1..Len(fs_keywords) : contains(tl, fs_keywords[j])})
        rel == (IF keyword_count >= 2 THEN 4 ELSE IF keyword_count >= 1 THEN 2 ELSE 0)
             + (IF has_where THEN 3 ELSE 0)
             + (IF has_data THEN 2 ELSE 0)
             + (IF contains(tl, "student") \/ contains(tl, "farmer") THEN 1 ELSE 0)
    IN <<Min2(spec, 10), Min2(feas, 10), Min2(rel, 10)>>

\* the table with an equity band that excludes its upper end
label_band_open_band(val, admit_thr, priority_thr, sector, equity_reserve, equity_range) ==
    IF val >= priority_thr * Cent THEN "Priority"
    ELSE IF val >= admit_thr * Cent THEN "Admit"
    ELSE IF /\ equity_reserve
            /\ sector = "Farmer Org"
            /\ equity_range[1] * Cent <= val
            /\ val < equity_range[2] * Cent
         THEN "Reserve (Equity)"
    ELSE "Reserve"

\* the table with the Admit test ahead of the Priority test
label_band_admit_first(val, admit_thr, priority_thr, sector, equity_reserve, equity_range) ==
    IF val >= admit_thr * Cent THEN "Admit"
    ELSE IF val >= priority_thr * Cent THEN "Priority"
    ELSE IF /\ equity_reserve
            /\ sector = "Farmer Org"
            /\ equity_range[1] * Cent <= val
            /\ val <= equity_range[2] * Cent
         THEN "Reserve (Equity)"
    ELSE "Reserve"

\* val is in hundredths, the thresholds and the equity range are in points
label_band(val, admit_thr, priority_thr, sector, equity_reserve, equity_range) ==
    IF val >= priority_thr * Cent THEN "Priority"
    ELSE IF val >= admit_thr * Cent THEN "Admit"
    ELSE IF /\ equity_reserve
            /\ sector = "Farmer Org"
            /\ equity_range[1] * Cent <= val
            /\ val <= equity_range[2] * Cent
         THEN "Reserve (Equity)"
    ELSE "Reserve"

\* returns a cell: a value that is not a text is returned as it is
normalize_time_value(v) ==
    IF ~is_str(v) THEN v
    ELSE
    LET x0 == strip(v.s)
        x1 == MapChars(x0, "dashes", Len(x0))
        x  == MapChars(x1, "ge", Len(x1))
        xl == lower(x)
        x_compact == MapChars(xl, "nospace", Len(xl))
    IN
    IF x_compact \in {"<1h", "<1hour", "<1hrs", "<1hr"} THEN Str("<1h")
    ELSE IF x_compact \in {"1-2h", "1-2hours", "1-2hrs", "1-2hr"} THEN Str("1-2h")
    ELSE IF x_compact \in {"2-3h", "2-3hours", "2-3hrs", "2-3hr"} THEN Str("2-3h")
    ELSE IF x_compact \in {">=3h", ">=3hours", ">=3hrs", ">=3hr"} THEN Str(">=3h")
    ELSE Str(x)

\* Python's None, as a band
None == "None"

map_band(val, valid) ==
    IF ~is_str(val) THEN None
    ELSE LET v == strip(val.s) IN IF v \in valid THEN v ELSE None

\* in points
get_time_points(x) ==
    IF x \in {GeSign \o "3h", ">=3h"} THEN 10
    ELSE IF x \in {"2" \o EnDash \o "3h", "2-3h"} THEN 6
    ELSE IF x \in {"1" \o EnDash \o "2h", "1-2h"} THEN 3
    ELSE 0

\* text == p or text.startswith(p + " ") or text.startswith(p + ",")
token_match(text, ps) ==
    \E j \in 1..Len(ps) :
        \/ text = ps[j]
        \/ startswith(text, ps[j] \o " ")
        \/ startswith(text, ps[j] \o ",")

\* the reading of a confirmation that matches a negative anywhere at the start
yes_no_points_any_prefix(x, cap) ==
    IF isna(x) THEN 0
    ELSE LET text == lower(strip(x.s)) IN
         IF text = "" THEN 0
         ELSE IF \E p \in {"no", "none", "n/a", "na", "not applicable", "0"} :
                    startswith(text, p)
              THEN 0
         ELSE cap

yes_no_points(x, cap) ==
    IF isna(x) THEN 0
    ELSE LET text == lower(strip(x.s)) IN
         IF text = "" THEN 0
         ELSE IF token_match(text, <<"no", "none", "n/a", "na", "not applicable", "0">>)
              THEN 0
         ELSE IF token_match(text, <<"yes", "y", "true", "1", "ja", "oui", "si">>)
              THEN cap
         ELSE cap

\* sector_uplift.get(s_clean, 0), in points
sector_points(sector_uplift, s) ==
    LET s_clean == IF s \in DOMAIN sector_uplift THEN s ELSE "Other/Unclassified"
    IN dict_get(sector_uplift, s_clean, 0)

\* in thirtieths (w_function * 0.5)
function_points(x, choice, w_function) ==
    IF ~is_str(x) THEN 0
    ELSE
    LET xl == lower(x.s)
        is_finance == any_in(xl, <<"finance", "financial", "accountant", "economist",
                                   "banking", "treasury", "audit">>)
        direct == any_in(xl, <<"lecturer", "extension", "analyst", "programme",
                               "program officer", "policy", "teacher", "advisor",
                               "manager", "director">>)
        indirect == any_in(xl, <<"assistant", "admin", "coordinator", "student", "intern">>)
    IN
    IF is_finance /\ choice = "finance_optimized" THEN Pts(w_function)
    ELSE IF direct THEN Pts(w_function)
    ELSE IF indirect THEN (Pts(w_function) * 5) \div 10
    ELSE 0

\* {"Fluent": w_lang, "Working": w_lang*0.6, "Basic/With support": w_lang*0.3}.get(x, 0)
lang_points(x, w_lang) ==
    IF x = "Fluent" THEN Pts(w_lang)
    ELSE IF x = "Working" THEN (Pts(w_lang) * 6) \div 10
    ELSE IF x = "Basic/With support" THEN (Pts(w_lang) * 3) \div 10
    ELSE 0

-----------------------------------------------------------------------------
(* Helpers of src/apptest.py that differ from those of src/app.py          *)

apptest_rubric_heuristic_score(text, min_words) ==
    IF ~is_str(text) \/ strip(text.s) = "" THEN <<0, 0, 0>>
    ELSE
    LET t     == strip(text.s)
        words == word_count(t)
    IN
    IF words < min_words THEN <<0, 0, 0>>
    ELSE
    LET tl          == lower(t)
        has_data    == any_in(tl, <<"data", "dataset", "dashboard", "faostat", "survey">>)
        has_numbers == has_number(t)
        has_fs      == any_in(tl, <<"food system", "seed", "agric", "market", "value chain">>)
    IN <<IF words >= 200 \/ has_data THEN 10 ELSE 5,
         IF has_numbers THEN 10 ELSE 5,
         IF has_fs THEN 10 ELSE 5>>

\* v.strip().lower().replace(dashes).replace(ge).replace(" ", "")
normalize_mapping_value(v) ==
    IF ~is_str(v) THEN ""
    ELSE
    LET x0 == lower(strip(v.s))
        x1 == MapChars(x0, "dashes", Len(x0))
        x2 == MapChars(x1, "ge", Len(x1))
    IN MapChars(x2, "blank", Len(x2))

apptest_get_time_points(x) ==
    IF contains(x, ">=3h") THEN 10
    ELSE IF contains(x, "2-3h") THEN 6
    ELSE IF contains(x, "1-2h") THEN 3
    ELSE 0

apptest_yes_no_points(x, cap) ==
    IF isna(x) THEN 0
    ELSE LET text == lower(strip(x.s)) IN
         IF \E p \in {"no", "none", "n/a", "0"} : startswith(text, p) THEN 0
         ELSE cap

\* in thirtieths (w_function * 0.4)
apptest_function_points(x, w_function) ==
    IF ~is_str(x) THEN 0
    ELSE
    LET xl == lower(x.s)
        direct == any_in(xl, <<"specialist", "officer", "advisor", "director",
                               "manager", "analyst", "lecturer">>)
    IN IF direct THEN Pts(w_function) ELSE (Pts(w_function) * 4) \div 10

\* .map({"fluent": w, "working": w*0.6, "basic": w*0.3}).fillna(0)
apptest_lang_points(x, w_lang) ==
    IF x = "fluent" THEN Pts(w_lang)
    ELSE IF x = "working" THEN (Pts(w_lang) * 6) \div 10
    ELSE IF x = "basic" THEN (Pts(w_lang) * 3) \div 10
    ELSE 0

-----------------------------------------------------------------------------
(* Data frames                                                             *)

\* the "-- none --" entry of a column selectbox
NONE == "-- none --"

\* a data frame: its column names and its rows, in order
Frame(cols, rows) == [cols |-> cols, rows |-> rows]

NoFrame == Frame({}, <<>>)

\* c != NONE and c in work.columns
Mapped(c, frame) == c # NONE /\ c \in frame.cols

\* the row r with the columns of the record new added or replaced
With(r, new) == new @@ r

\* DataFrame.drop(columns=cs), on one row
Without(r, cs) == [c \in (DOMAIN r) \ cs |-> r[c]]

RECURSIVE Pick(_, _, _)
\* the rows of seq whose positions are in keep, from position i on, in order
Pick(seq, keep, i) ==
    IF i > Len(seq) THEN <<>>
    ELSE (IF i \in keep THEN <<seq[i]>> ELSE <<>>) \o Pick(seq, keep, i + 1)

\* DataFrame.drop_duplicates(subset=["PID"], keep="first")
drop_duplicates_first(rows) ==
    Pick(rows, {i \in 1..Len(rows) : \A j \in 1..(i - 1) : rows[j].PID # rows[i].PID}, 1)

\* DataFrame.drop_duplicates(subset=["PID"], keep="last")
drop_duplicates_last(rows) ==
    Pick(rows, {i \in 1..Len(rows) : \A j \in (i + 1)..Len(rows) : rows[j].PID # rows[i].PID}, 1)

\* pandas' NaT, as a date
NaT == -1

DigitVal(c) == CHOOSE d \in 0..9 : ToString(d) = c

\* pd.to_datetime(x, errors="coerce") of one cell, as the number yyyymmdd: a text
\* of the form YYYY-MM-DD naming a month and a day is parsed, a missing value
\* and any other text are NaT.  (Numeric date cells are not drawn.)
to_datetime(x) ==
    IF /\ is_str(x)
       /\ Len(x.s) = 10
       /\ \A i \in {1, 2, 3, 4, 6, 7, 9, 10} : IsDigit(Ch(x.s, i))
       /\ Ch(x.s, 5) = "-" /\ Ch(x.s, 8) = "-"
    THEN LET y == 1000 * DigitVal(Ch(x.s, 1)) + 100 * DigitVal(Ch(x.s, 2))
                  + 10 * DigitVal(Ch(x.s, 3)) + DigitVal(Ch(x.s, 4))
             m == 10 * DigitVal(Ch(x.s, 6)) + DigitVal(Ch(x.s, 7))
             d == 10 * DigitVal(Ch(x.s, 9)) + DigitVal(Ch(x.s, 10))
         IN IF m \in 1..12 /\ d \in 1..31 THEN 10000 * y + 100 * m + d ELSE NaT
    ELSE NaT

\* DataFrame.sort_values("_app_date"): the orders the sort may produce, each a
\* function from the new position to the old one.  The dated rows come first,
\* by ascending date; the default sort (quicksort) is not stable, so rows of
\* equal date come in any order; the NaT rows come last (na_position="last"),
\* in their original order.
sort_values_orders(rows) ==
    {p \in Permutations(1..Len(rows)) :
        \A k1 \in 1..Len(rows) : \A k2 \in (k1 + 1)..Len(rows) :
            LET a == rows[p[k1]]["_app_date"]
                b == rows[p[k2]]["_app_date"]
            IN IF a = NaT THEN b = NaT /\ p[k1] < p[k2]
               ELSE b = NaT \/ a <= b}

-----------------------------------------------------------------------------
(* The script of src/app.py, from its start to the download button         *)

\* the value of SALT before the script assigns it
Unset == "<unset>"

\* the start of a script that stops only when st.secrets has no SALT entry
Startup_absent_only ==
    /\ pc = "start"
    /\ IF "SALT" \notin DOMAIN secrets
       THEN /\ pc' = "missing_salt"
            /\ SALT' = SALT
       ELSE /\ pc' = "sidebar"
            /\ SALT' = secrets["SALT"]
    /\ UNCHANGED <<variant, secrets, preset_choice, custom_mode, custom, equity_on,
                   colmap, df, prm, work, pretty, download, uploaded, args, ret>>

\* lines 141-145 of src/app.py and 104-108 of src/apptest.py; "missing_salt" is
\* the run after st.error("Missing SALT ...") and st.stop()
Startup ==
    /\ pc = "start"
    /\ IF "SALT" \notin DOMAIN secrets \/ secrets["SALT"] = ""
       THEN /\ pc' = "missing_salt"
            /\ SALT' = SALT
       ELSE /\ pc' = "sidebar"
            /\ SALT' = secrets["SALT"]
    /\ UNCHANGED <<variant, secrets, preset_choice, custom_mode, custom, equity_on,
                   colmap, df, prm, work, pretty, download, uploaded, args, ret>>

\* the parameters the sidebar of src/app.py resolves
resolve_parameters(preset, is_custom, typed, equity) ==
    [thr_admit     |-> IF is_custom THEN typed.thr_admit ELSE preset.thresh_admit,
     thr_priority  |-> IF is_custom THEN typed.thr_priority ELSE preset.thresh_priority,
     w_motivation  |-> IF is_custom THEN typed.w_motivation ELSE preset.w_motivation,
     w_sector      |-> IF is_custom THEN typed.w_sector ELSE preset.w_sector,
     w_referee     |-> IF is_custom THEN typed.w_referee ELSE preset.w_referee,
     w_function    |-> IF is_custom THEN typed.w_function ELSE preset.w_function,
     w_time        |-> IF is_custom THEN typed.w_time ELSE preset.w_time,
     w_lang        |-> IF is_custom THEN typed.w_lang ELSE preset.w_lang,
     w_alumni      |-> IF is_custom THEN typed.w_alumni ELSE preset.w_alumni,
     min_mot_words |-> IF is_custom THEN typed.min_mot_words ELSE preset.min_motivation_words,
     sector_uplift |-> preset.sector_uplift,
     equity_on     |-> equity,
     equity_lower  |-> preset.equity_lower,
     equity_upper  |-> preset.equity_upper]

\* src/apptest.py reads the preset at each use and passes True for the equity flag
apptest_parameters(preset) == resolve_parameters(preset, FALSE, preset, TRUE)

Sidebar ==
    /\ pc = "sidebar"
    /\ prm' = IF variant = "app"
              THEN resolve_parameters(PRESETS[preset_choice], custom_mode, custom, equity_on)
              ELSE apptest_parameters(apptest_PRESETS[preset_choice])
    /\ pc' = "upload"
    /\ UNCHANGED <<variant, secrets, preset_choice, custom_mode, custom, equity_on,
                   colmap, df, work, pretty, download, SALT, uploaded, args, ret>>

\* st.file_uploader: without a file the run ends here
Upload ==
    /\ pc = "upload"
    /\ pc' = IF uploaded THEN "pid" ELSE "stopped"
    /\ UNCHANGED <<variant, secrets, preset_choice, custom_mode, custom, equity_on,
                   colmap, df, prm, work, pretty, download, SALT, uploaded, args, ret>>

\* one row of the PID step, i its position from 1
pid_row(r, i, email_col, has_email, salt) ==
    IF has_email
    THEN Without(With(r, ("_original_email" :> r[email_col]) @@
                         ("PID" :> hash_id(salt, normalize_email(r[email_col])))),
                 {email_col})
    ELSE With(r, ("_original_email" :> NaN) @@
                 ("PID" :> hash_id(salt, "row_" \o ToString(i - 1))))

GeneratePID ==
    /\ pc = "pid" /\ variant = "app"
    /\ LET work0 == Frame(df.cols \ {"PID"},
                          [i \in DOMAIN df.rows |-> Without(df.rows[i], {"PID"})])
           has_email == Mapped(colmap.email_col, work0)
       IN work' = Frame((work0.cols \cup {"_original_email", "PID"})
                            \ (IF has_email THEN {colmap.email_col} ELSE {}),
                        [i \in DOMAIN work0.rows |->
                            pid_row(work0.rows[i], i, colmap.email_col, has_email, SALT)])
    /\ pc' = "dedup"
    /\ UNCHANGED <<variant, secrets, preset_choice, custom_mode, custom, equity_on,
                   colmap, df, prm, pretty, download, SALT, uploaded, args, ret>>

Deduplicate ==
    /\ pc = "dedup" /\ variant = "app"
    /\ IF Mapped(colmap.date_col, work)
       THEN LET dated == [i \in DOMAIN work.rows |->
                            With(work.rows[i],
                                 "_app_date" :> to_datetime(work.rows[i][colmap.date_col]))]
            IN \E p \in sort_values_orders(dated) :
                  work' = Frame(work.cols \cup {"_app_date"},
                                drop_duplicates_last([k \in DOMAIN dated |-> dated[p[k]]]))
       ELSE work' = Frame(work.cols, drop_duplicates_first(work.rows))
    /\ pc' = "sector"
    /\ UNCHANGED <<variant, secrets, preset_choice, custom_mode, custom, equity_on,
                   colmap, df, prm, pretty, download, SALT, uploaded, args, ret>>

\* Series.fillna("Other/Unclassified") of the structured column, one cell
sector_fillna(x) == IF isna(x) THEN "Other/Unclassified" ELSE x.s

resolve_sector(r, cm, frame) ==
    IF Mapped(cm.sector_col, frame) THEN sector_fillna(r[cm.sector_col])
    ELSE IF Mapped(cm.org_col, frame) THEN org_to_sector(r[cm.org_col])
    ELSE "Other/Unclassified"

ResolveSector ==
    /\ pc = "sector" /\ variant = "app"
    /\ work' = Frame(work.cols \cup {"_sector"},
                     [i \in DOMAIN work.rows |->
                        With(work.rows[i], "_sector" :> resolve_sector(work.rows[i], colmap, work))])
    /\ pc' = "mot"
    /\ UNCHANGED <<variant, secrets, preset_choice, custom_mode, custom, equity_on,
                   colmap, df, prm, pretty, download, SALT, uploaded, args, ret>>

\* the motivation columns of one row; _mot_scaled is in thirtieths
motivation_columns(r, cm, frame, p) ==
    LET t == IF Mapped(cm.mot_col, frame)
             THEN rubric_heuristic_score(r[cm.mot_col], p.min_mot_words)
             ELSE <<0, 0, 0>>
        total == t[1] + t[2] + t[3]
    IN ("_mot_specificity" :> t[1]) @@ ("_mot_feasibility" :> t[2]) @@
       ("_mot_relevance" :> t[3]) @@ ("_mot_total" :> total) @@
       ("_mot_scaled" :> clip(total * p.w_motivation, 0, Pts(p.w_motivation)))

MotivationScores ==
    /\ pc = "mot" /\ variant = "app"
    /\ work' = Frame(work.cols \cup {"_mot_specificity", "_mot_feasibility",
                                     "_mot_relevance", "_mot_total", "_mot_scaled"},
                     [i \in DOMAIN work.rows |->
                        With(work.rows[i], motivation_columns(work.rows[i], colmap, work, prm))])
    /\ pc' = "secpts"
    /\ UNCHANGED <<variant, secrets, preset_choice, custom_mode, custom, equity_on,
                   colmap, df, prm, pretty, download, SALT, uploaded, args, ret>>

SectorUplift ==
    /\ pc = "secpts" /\ variant = "app"
    /\ work' = Frame(work.cols \cup {"_sector_points"},
                     [i \in DOMAIN work.rows |->
                        With(work.rows[i],
                             "_sector_points" :>
                                clip(Pts(sector_points(prm.sector_uplift, work.rows[i]["_sector"])),
                                     0, Pts(prm.w_sector)))])
    /\ pc' = "refalm"
    /\ UNCHANGED <<variant, secrets, preset_choice, custom_mode, custom, equity_on,
                   colmap, df, prm, pretty, download, SALT, uploaded, args, ret>>

RefereeAlumni ==
    /\ pc = "refalm" /\ variant = "app"
    /\ work' = Frame(work.cols \cup {"_ref_points", "_alm_points"},
                     [i \in DOMAIN work.rows |->
                        With(work.rows[i],
                             ("_ref_points" :>
                                IF Mapped(colmap.ref_col, work)
                                THEN yes_no_points(work.rows[i][colmap.ref_col], Pts(prm.w_referee))
                                ELSE 0) @@
                             ("_alm_points" :>
                                IF Mapped(colmap.alm_col, work)
                                THEN yes_no_points(work.rows[i][colmap.alm_col], Pts(prm.w_alumni))
                                ELSE 0))])
    /\ pc' = "func"
    /\ UNCHANGED <<variant, secrets, preset_choice, custom_mode, custom, equity_on,
                   colmap, df, prm, pretty, download, SALT, uploaded, args, ret>>

FunctionRelevance ==
    /\ pc = "func" /\ variant = "app"
    /\ work' = Frame(work.cols \cup {"_func_points"},
                     [i \in DOMAIN work.rows |->
                        With(work.rows[i],
                             "_func_points" :>
                                IF Mapped(colmap.func_col, work)
                                THEN function_points(work.rows[i][colmap.func_col],
                                                     preset_choice, prm.w_function)
                                ELSE 0)])
    /\ pc' = "timelang"
    /\ UNCHANGED <<variant, secrets, preset_choice, custom_mode, custom, equity_on,
                   colmap, df, prm, pretty, download, SALT, uploaded, args, ret>>

\* the time and language columns of one row; the points are in thirtieths
time_language_columns(r, cm, frame, p) ==
    LET time_band == IF Mapped(cm.time_col, frame)
                     THEN map_band(normalize_time_value(r[cm.time_col]), WEEKLY_TIME_BANDS)
                     ELSE None
        lang_band == IF Mapped(cm.lang_col, frame)
                     THEN map_band(r[cm.lang_col], LANG_BANDS)
                     ELSE None
    IN ("_time_band" :> time_band) @@ ("_lang_band" :> lang_band) @@
       ("_time_points" :> Min2(Pts(get_time_points(time_band)), Pts(p.w_time))) @@
       ("_lang_points" :> Min2(lang_points(lang_band, p.w_lang), Pts(p.w_lang)))

TimeLanguage ==
    /\ pc = "timelang" /\ variant = "app"
    /\ work' = Frame(work.cols \cup {"_time_band", "_lang_band", "_time_points", "_lang_points"},
                     [i \in DOMAIN work.rows |->
                        With(work.rows[i], time_language_columns(work.rows[i], colmap, work, prm))])
    /\ pc' = "rfs"
    /\ UNCHANGED <<variant, secrets, preset_choice, custom_mode, custom, equity_on,
                   colmap, df, prm, pretty, download, SALT, uploaded, args, ret>>

rfs_cols == <<"_mot_scaled", "_sector_points", "_ref_points", "_func_points",
              "_time_points", "_lang_points", "_alm_points">>

RECURSIVE SumCols(_, _, _)
\* DataFrame[cols].sum(axis=1), one row
SumCols(r, cols, k) == IF k > Len(cols) THEN 0 ELSE r[cols[k]] + SumCols(r, cols, k + 1)

\* the _RFS (in hundredths) and _label columns of one row
final_columns(r, p) ==
    LET rfs == round2(SumCols(r, rfs_cols, 1)) IN
    ("_RFS" :> rfs) @@
    ("_label" :> label_band(rfs, p.thr_admit, p.thr_priority, r["_sector"],
                            p.equity_on, <<p.equity_lower, p.equity_upper>>))

FinalRFS ==
    /\ pc = "rfs" /\ variant = "app"
    /\ work' = Frame(work.cols \cup {"_RFS", "_label"},
                     [i \in DOMAIN work.rows |->
                        With(work.rows[i], final_columns(work.rows[i], prm))])
    /\ pc' = "output"
    /\ UNCHANGED <<variant, secrets, preset_choice, custom_mode, custom, equity_on,
                   colmap, df, prm, pretty, download, SALT, uploaded, args, ret>>

\* work[out_cols].rename(columns=...), one row
pretty_row(r) ==
    [index |-> r.index, PID |-> r.PID] @@
    ("Sector" :> r["_sector"]) @@ ("RFS" :> r["_RFS"]) @@
    ("predicted Decision" :> r["_label"]) @@
    ("MotivationPts" :> r["_mot_scaled"]) @@ ("SectorPts" :> r["_sector_points"]) @@
    ("RefereePts" :> r["_ref_points"]) @@ ("FunctionPts" :> r["_func_points"]) @@
    ("TimePts" :> r["_time_points"]) @@ ("LanguagePts" :> r["_lang_points"]) @@
    ("AlumniPts" :> r["_alm_points"])

out_cols == {"PID", "Sector", "RFS", "predicted Decision", "MotivationPts", "SectorPts",
             "RefereePts", "FunctionPts", "TimePts", "LanguagePts", "AlumniPts"}

Output ==
    /\ pc = "output" /\ variant = "app"
    /\ pretty' = Frame(out_cols, [i \in DOMAIN work.rows |-> pretty_row(work.rows[i])])
    /\ download' = Frame(out_cols \cup {"Email"},
                         [i \in DOMAIN work.rows |->
                            With(pretty_row(work.rows[i]),
                                 "Email" :> work.rows[i]["_original_email"])])
    /\ pc' = "done"
    /\ UNCHANGED <<variant, secrets, preset_choice, custom_mode, custom, equity_on,
                   colmap, df, prm, work, SALT, uploaded, args, ret>>

-----------------------------------------------------------------------------
(* The script of src/apptest.py: the columns are named in the code, there  *)
(* is no deduplication, and a column the table lacks raises KeyError       *)

apptest_cols ==
    [email_col |-> "Email", mot_col |-> "MotivationText", func_col |-> "FunctionTitle",
     ref_col |-> "RefereeConfirmsFit", lang_col |-> "LanguageComfort",
     time_col |-> "WeeklyTimeBand", org_col |-> "Organisation",
     alm_col |-> "AlumniReferral"]

apptest_GeneratePID ==
    /\ pc = "pid" /\ variant = "apptest"
    /\ IF apptest_cols.email_col \notin df.cols \/ "PID" \in df.cols
       THEN /\ pc' = "error"
            /\ work' = work
       ELSE /\ work' = Frame(df.cols \cup {"Email_Norm", "PID"},
                             [i \in DOMAIN df.rows |->
                                LET norm == normalize_email(df.rows[i][apptest_cols.email_col])
                                IN With(df.rows[i],
                                        [Email_Norm |-> norm, PID |-> hash_id(SALT, norm)])])
            /\ pc' = "mot"
    /\ UNCHANGED <<variant, secrets, preset_choice, custom_mode, custom, equity_on,
                   colmap, df, prm, pretty, download, SALT, uploaded, args, ret>>

apptest_Motivation ==
    /\ pc = "mot" /\ variant = "apptest"
    /\ IF apptest_cols.mot_col \notin work.cols
       THEN /\ pc' = "error"
            /\ work' = work
       ELSE /\ work' = Frame(work.cols \cup {"MotivationPts"},
                             [i \in DOMAIN work.rows |->
                                LET t == apptest_rubric_heuristic_score(
                                            work.rows[i][apptest_cols.mot_col],
                                            prm.min_mot_words)
                                IN With(work.rows[i],
                                        [MotivationPts |-> (t[1] + t[2] + t[3]) * prm.w_motivation])])
            /\ pc' = "func"
    /\ UNCHANGED <<variant, secrets, preset_choice, custom_mode, custom, equity_on,
                   colmap, df, prm, pretty, download, SALT, uploaded, args, ret>>

apptest_Function ==
    /\ pc = "func" /\ variant = "apptest"
    /\ IF apptest_cols.func_col \notin work.cols
       THEN /\ pc' = "error"
            /\ work' = work
       ELSE /\ work' = Frame(work.cols \cup {"FunctionPts"},
                             [i \in DOMAIN work.rows |->
                                With(work.rows[i],
                                     [FunctionPts |->
                                        apptest_function_points(work.rows[i][apptest_cols.func_col],
                                                                prm.w_function)])])
            /\ pc' = "refalm"
    /\ UNCHANGED <<variant, secrets, preset_choice, custom_mode, custom, equity_on,
                   colmap, df, prm, pretty, download, SALT, uploaded, args, ret>>

\* the columns of "3. Referee & Language & Sector", one row; points in thirtieths
apptest_other_columns(r, p) ==
    LET sector == org_to_sector(r[apptest_cols.org_col]) IN
    [RefereePts  |-> apptest_yes_no_points(r[apptest_cols.ref_col], Pts(p.w_referee)),
     Sector      |-> sector,
     SectorPts   |-> Pts(dict_get(p.sector_uplift, sector, 0)),
     LanguagePts |-> apptest_lang_points(normalize_mapping_value(r[apptest_cols.lang_col]),
                                         p.w_lang),
     TimePts     |-> Pts(apptest_get_time_points(normalize_mapping_value(r[apptest_cols.time_col])))]

apptest_RefereeLanguageSector ==
    /\ pc = "refalm" /\ variant = "apptest"
    /\ IF ~({apptest_cols.ref_col, apptest_cols.org_col, apptest_cols.lang_col,
             apptest_cols.time_col} \subseteq work.cols)
       THEN /\ pc' = "error"
            /\ work' = work
       ELSE /\ work' = Frame(work.cols \cup {"RefereePts", "Sector", "SectorPts",
                                             "LanguagePts", "TimePts"},
                             [i \in DOMAIN work.rows |->
                                With(work.rows[i], apptest_other_columns(work.rows[i], prm))])
            /\ pc' = "rfs"
    /\ UNCHANGED <<variant, secrets, preset_choice, custom_mode, custom, equity_on,
                   colmap, df, prm, pretty, download, SALT, uploaded, args, ret>>

pts_cols == <<"MotivationPts", "FunctionPts", "RefereePts", "SectorPts",
              "LanguagePts", "TimePts">>

apptest_final_columns(r, p) ==
    LET rfs == round2(SumCols(r, pts_cols, 1)) IN
    ("RFS" :> rfs) @@
    ("predicted Decision" :> label_band(rfs, p.thr_admit, p.thr_priority, r["Sector"],
                                        TRUE, <<p.equity_lower, p.equity_upper>>))

apptest_FinalScoring ==
    /\ pc = "rfs" /\ variant = "apptest"
    /\ work' = Frame(work.cols \cup {"RFS", "predicted Decision"},
                     [i \in DOMAIN work.rows |->
                        With(work.rows[i], apptest_final_columns(work.rows[i], prm))])
    /\ pc' = "output"
    /\ UNCHANGED <<variant, secrets, preset_choice, custom_mode, custom, equity_on,
                   colmap, df, prm, pretty, download, SALT, uploaded, args, ret>>

apptest_out_cols == {"PID", "Sector", "RFS", "predicted Decision", "MotivationPts",
                     "FunctionPts", "RefereePts", "SectorPts", "LanguagePts", "TimePts"}

\* work[["PID", "Sector", "RFS", "predicted Decision"] + pts_cols], one row
apptest_pretty_row(r) == [c \in apptest_out_cols \cup {"index"} |-> r[c]]

apptest_Output ==
    /\ pc = "output" /\ variant = "apptest"
    /\ pretty' = Frame(apptest_out_cols,
                       [i \in DOMAIN work.rows |-> apptest_pretty_row(work.rows[i])])
    /\ download' = work
    /\ pc' = "done"
    /\ UNCHANGED <<variant, secrets, preset_choice, custom_mode, custom, equity_on,
                   colmap, df, prm, work, SALT, uploaded, args, ret>>

\* one run of either script
Next ==
    \/ Startup
    \/ Sidebar
    \/ Upload
    \/ GeneratePID
    \/ Deduplicate
    \/ ResolveSector
    \/ MotivationScores
    \/ SectorUplift
    \/ RefereeAlumni
    \/ FunctionRelevance
    \/ TimeLanguage
    \/ FinalRFS
    \/ Output
    \/ apptest_GeneratePID
    \/ apptest_Motivation
    \/ apptest_Function
    \/ apptest_RefereeLanguageSector
    \/ apptest_FinalScoring
    \/ apptest_Output

-----------------------------------------------------------------------------
(* Inputs                                                                  *)

ROLES == {"Email", "Organisation", "Sector", "MotivationText", "FunctionTitle",
          "WeeklyTimeBand", "LanguageComfort", "RefereeConfirmsFit",
          "AlumniReferral", "ApplicationDate"}

RECURSIVE Filler(_)
\* n words of filler, single-spaced
Filler(n) ==
    IF n = 0 THEN ""
    ELSE IF n = 1 THEN "a"
    ELSE Filler(n \div 2) \o " " \o Filler(n - n \div 2)

\* fifteen words that hit every predicate of the rubric
RichWords == "In 2024 our District Survey pilot plan: policy officer food system seed farmer 5-6 weeks"

\* a motivation text of n words (n > 15) that hits every predicate
Rich(n) == RichWords \o " " \o Filler(n - 15)

\* a motivation text of n words (n > 1) whose only keyword is "survey"
Survey(n) == "survey\t " \o Filler(n - 1) \o " "

HighRow ==
    [Email |-> Str("a@x.org"),
     Organisation |-> Str("Ministry of Agriculture"),
     Sector |-> Str("Government"),
     MotivationText |-> Str(Rich(75)),
     FunctionTitle |-> Str("Policy Officer"),
     WeeklyTimeBand |-> Str(">=3h"),
     LanguageComfort |-> Str("Fluent"),
     RefereeConfirmsFit |-> Str("yes"),
     AlumniReferral |-> Str("Yes, by a colleague"),
     ApplicationDate |-> Str("2024-01-01")]

LowRow == [c \in ROLES |-> IF c = "Email" THEN Str("b@x.org") ELSE NaN]

\* a Farmer Org applicant of middling score
FarmerRow ==
    [Email |-> Str("c@x.org"),
     Organisation |-> Str("Farmers Cooperative"),
     Sector |-> Str("Farmer Org"),
     MotivationText |-> Str(Survey(30)),
     FunctionTitle |-> Str("Field assistant"),
     WeeklyTimeBand |-> Str("2-3h"),
     LanguageComfort |-> Str("Working"),
     RefereeConfirmsFit |-> Str("Jane Doe, jane@x.org"),
     AlumniReferral |-> Str("no"),
     ApplicationDate |-> NaN]

\* a farmer-organisation applicant with no motivation text, an indirect
\* function, the lowest scoring time and language bands and both confirmations
GapRow ==
    [Email |-> Str("d@x.org"),
     Organisation |-> Str("Farmers Cooperative"),
     Sector |-> Str("Farmer Org"),
     MotivationText |-> NaN,
     FunctionTitle |-> Str("Intern"),
     WeeklyTimeBand |-> Str("1-2h"),
     LanguageComfort |-> Str("Basic/With support"),
     RefereeConfirmsFit |-> Str("yes"),
     AlumniReferral |-> Str("yes"),
     ApplicationDate |-> NaN]

\* the applicant with the highest value in every field: the longest motivation
\* text, the sector of the largest uplift of the preset, the top bands
BestRow(preset) ==
    [HighRow EXCEPT
        !.MotivationText = Str(Rich(LengthTarget1)),
        !.Sector = Str(CHOOSE s \in DOMAIN preset.sector_uplift :
                          \A t \in DOMAIN preset.sector_uplift :
                              preset.sector_uplift[t] <= preset.sector_uplift[s])]

\* the values each column takes, one column at a time
FieldValues ==
    {<<"Organisation", Str(x)>> : x \in
        {"State University", "Green NGO", "FAO", "Agri Bank Ltd", "First Bank",
         "Farmers Cooperative", "University Bank", "Acme Consulting", "XYZ", "  "}}
    \cup {<<"Organisation", NaN>>, <<"Organisation", Num("7")>>}
    \cup {<<"Sector", Str(x)>> : x \in
        {"Education", "Farmer Org", "Finance", "Private", "Academia", "farmer org"}}
    \cup {<<"Sector", NaN>>}
    \cup {<<"MotivationText", Str(x)>> : x \in
        {" \t ", "survey", Rich(19), Rich(20), Rich(29), Rich(30), Rich(49), Rich(50),
         Rich(74), Rich(75), Survey(19), Survey(20), Survey(29), Survey(30), Survey(49),
         Survey(50), Survey(74), Survey(75), Filler(80), Rich(200), Rich(300)}}
    \cup {<<"MotivationText", NaN>>, <<"MotivationText", Num("42")>>}
    \cup {<<"FunctionTitle", Str(x)>> : x \in
        {"Senior Lecturer", "Intern", "Chief Accountant", "Farmer", "Extension Officer", " "}}
    \cup {<<"FunctionTitle", NaN>>, <<"FunctionTitle", Num("1")>>}
    \cup {<<"WeeklyTimeBand", Str(x)>> : x \in
        {"<1h", "1-2h", "2-3h", ">=3h", GeSign \o "3h", ">= 3 H", ">=3hours",
         "1" \o EnDash \o "2h", "2" \o EmDash \o "3 hrs", "lots", " "}}
    \cup {<<"WeeklyTimeBand", NaN>>, <<"WeeklyTimeBand", Num("3")>>}
    \cup {<<"LanguageComfort", Str(x)>> : x \in
        {"Fluent", "Working", "Basic/With support", "fluent", " FLUENT ", " Working",
         "Basic", "native", " "}}
    \cup {<<"LanguageComfort", NaN>>}
    \cup {<<c, Str(x)>> : c \in {"RefereeConfirmsFit", "AlumniReferral"}, x \in
        {"yes", "no", "No thanks", "Jane Doe, jane@x.org", "nope", "Norman Doe", "N/A",
         "0", "  "}}
    \cup {<<c, x>> : c \in {"RefereeConfirmsFit", "AlumniReferral"},
                     x \in {NaN, Num("0"), Num("0.0"), Num("1")}}

\* base with one column changed
RowsAround(base) == {(fv[1] :> fv[2]) @@ base : fv \in FieldValues}

\* an uploaded table: the rows get the default index 0, 1, ...
Table(rows) == Frame(ROLES, [i \in DOMAIN rows |-> With(rows[i], [index |-> i - 1])])

\* column mappings of src/app.py
MapAll ==
    [email_col |-> "Email", org_col |-> "Organisation", sector_col |-> "Sector",
     mot_col |-> "MotivationText", func_col |-> "FunctionTitle",
     time_col |-> "WeeklyTimeBand", lang_col |-> "LanguageComfort",
     ref_col |-> "RefereeConfirmsFit", alm_col |-> "AlumniReferral",
     date_col |-> "ApplicationDate"]

MapOrg == [MapAll EXCEPT !.sector_col = NONE]

MapNone == [c \in DOMAIN MapAll |-> NONE]

\* what the custom-mode widgets hold: the preset's defaults, or values typed
\* within the widgets' ranges (thresholds 0..100, sliders 0..40/30/30/25/20/25/15,
\* minimum words 10..100)
Seeded(preset) ==
    [thr_admit |-> preset.thresh_admit, thr_priority |-> preset.thresh_priority,
     w_motivation |-> preset.w_motivation, w_sector |-> preset.w_sector,
     w_referee |-> preset.w_referee, w_function |-> preset.w_function,
     w_time |-> preset.w_time, w_lang |-> preset.w_lang, w_alumni |-> preset.w_alumni,
     min_mot_words |-> preset.min_motivation_words]

CustomChoices(preset) ==
    {Seeded(preset),
     [thr_admit |-> 0, thr_priority |-> 100,
      w_motivation |-> 0, w_sector |-> 0, w_referee |-> 0, w_function |-> 0,
      w_time |-> 0, w_lang |-> 0, w_alumni |-> 0, min_mot_words |-> 10],
     [thr_admit |-> 70, thr_priority |-> 55,
      w_motivation |-> 7, w_sector |-> 3, w_referee |-> 1, w_function |-> 5,
      w_time |-> 5, w_lang |-> 9, w_alumni |-> 2, min_mot_words |-> 100],
     [thr_admit |-> 60, thr_priority |-> 60,
      w_motivation |-> 40, w_sector |-> 30, w_referee |-> 30, w_function |-> 25,
      w_time |-> 20, w_lang |-> 25, w_alumni |-> 15, min_mot_words |-> 31]}

\* what holds in every initial state: nothing has run
Fresh ==
    /\ pc = "start"
    /\ prm = << >>
    /\ work = NoFrame
    /\ pretty = NoFrame
    /\ download = NoFrame
    /\ SALT = Unset
    /\ args = << >>
    /\ ret = << >>

\* Scoring runs: one applicant per run.  Either the configuration varies (every
\* preset, custom modes, equity flag, column mappings) over three applicants,
\* or the applicant varies one column at a time under every preset.
InitScoring ==
    /\ Fresh
    /\ secrets \in {[SALT |-> "s3cr3t"]}
    /\ uploaded = TRUE
    /\ \/ /\ variant = "app"
          /\ preset_choice \in DOMAIN PRESETS
          /\ custom_mode \in BOOLEAN
          /\ custom \in (IF custom_mode THEN CustomChoices(PRESETS[preset_choice])
                         ELSE {Seeded(PRESETS[preset_choice])})
          /\ equity_on \in BOOLEAN
          /\ colmap \in {MapAll, MapOrg, MapNone}
          /\ df \in {Table(<<r>>) : r \in {HighRow, LowRow, FarmerRow}}
       \/ /\ variant = "app"
          /\ preset_choice \in DOMAIN PRESETS
          /\ custom_mode = FALSE
          /\ custom = Seeded(PRESETS[preset_choice])
          /\ equity_on = TRUE
          /\ colmap \in {MapAll, MapOrg}
          /\ df \in {Table(<<r>>) : r \in RowsAround(HighRow) \cup RowsAround(LowRow)
                                         \cup {BestRow(PRESETS[preset_choice]), GapRow}}
       \/ /\ variant = "apptest"
          /\ preset_choice \in DOMAIN apptest_PRESETS
          /\ custom_mode = FALSE
          /\ custom = Seeded(apptest_PRESETS[preset_choice])
          /\ equity_on = TRUE
          /\ colmap = apptest_cols
          /\ df \in {Table(<<r>>) : r \in RowsAround(HighRow) \cup RowsAround(LowRow)
                                         \cup {HighRow, LowRow, FarmerRow}}

\* what st.secrets may hold: a SALT, an empty SALT, or no SALT entry at all
SecretsFiles == {[SALT |-> "s3cr3t"], [SALT |-> ""], [API_KEY |-> "k"]}

\* Runs that may end early: the secrets file and the presence of an upload vary
InitEarly ==
    /\ Fresh
    /\ secrets \in SecretsFiles
    /\ uploaded \in BOOLEAN
    /\ custom_mode = FALSE
    /\ equity_on = TRUE
    /\ df = IF uploaded THEN Table(<<HighRow>>) ELSE NoFrame
    /\ \/ /\ variant = "app"
          /\ preset_choice \in DOMAIN PRESETS
          /\ custom = Seeded(PRESETS[preset_choice])
          /\ colmap = MapAll
       \/ /\ variant = "apptest"
          /\ preset_choice \in DOMAIN apptest_PRESETS
          /\ custom = Seeded(apptest_PRESETS[preset_choice])
          /\ colmap = apptest_cols

\* the uploaded table of one applicant that has the columns keep only
Columns(keep, r) == Frame(keep, <<With([c \in keep |-> r[c]], [index |-> 0])>>)

\* the mapping that selects the columns of keep and leaves the other roles at NONE
MapPresent(keep) ==
    [role \in DOMAIN MapAll |-> IF MapAll[role] \in keep THEN MapAll[role] ELSE NONE]

\* Runs with optional roles left out: any set of columns is absent from the
\* uploaded table, or is present and left unmapped
InitAbsent ==
    /\ Fresh
    /\ secrets = [SALT |-> "s3cr3t"]
    /\ uploaded = TRUE
    /\ preset_choice = "balanced"
    /\ custom_mode = FALSE
    /\ equity_on = TRUE
    /\ \E keep \in SUBSET ROLES :
          \/ /\ variant = "app"
             /\ custom = Seeded(PRESETS[preset_choice])
             /\ colmap = MapPresent(keep)
             /\ df \in {Table(<<HighRow>>)}
                        \cup (IF keep = {} THEN {} ELSE {Columns(keep, HighRow)})
          \/ /\ variant = "apptest"
             /\ keep # {}
             /\ custom = Seeded(apptest_PRESETS[preset_choice])
             /\ colmap = apptest_cols
             /\ df = Columns(keep, HighRow)

Spec == (InitScoring \/ InitEarly \/ InitAbsent) /\ [][Next]_vars

-----------------------------------------------------------------------------
(* Properties of a scoring run (Spec)                                      *)

\* the weight cap of each SubScore column of the review view
CapOf(p) ==
    [MotivationPts |-> p.w_motivation, SectorPts |-> p.w_sector,
     RefereePts |-> p.w_referee, FunctionPts |-> p.w_function,
     TimePts |-> p.w_time, LanguagePts |-> p.w_lang, AlumniPts |-> p.w_alumni]

SubScoreCols == DOMAIN CapOf(PRESETS.balanced)

\* C1: in both scripts, under every resolved parameter set, every SubScore the
\* review view shows lies between 0 and the weight cap configured for its factor.
C1_WeightCapping ==
    pc = "done" =>
        \A i \in DOMAIN pretty.rows : \A c \in SubScoreCols \cap pretty.cols :
            /\ 0 <= pretty.rows[i][c]
            /\ pretty.rows[i][c] <= Pts(CapOf(prm)[c])

\* C1 for the script of src/app.py alone, which clips every SubScore
C1_WeightCapping_app == variant = "app" => C1_WeightCapping

\* the motivation cell of row r of the working frame, or NaN when none is mapped
MotivationCell(r) ==
    IF variant = "apptest" THEN r[apptest_cols.mot_col]
    ELSE IF colmap.mot_col \in DOMAIN r THEN r[colmap.mot_col]
    ELSE NaN

MotivationScored == "_mot_scaled" \in work.cols \/ "MotivationPts" \in work.cols

MotivationPtsOf(r) == IF variant = "app" THEN r["_mot_scaled"] ELSE r["MotivationPts"]

\* C8: a motivation value that is not a text, is blank, or has fewer than
\* min_words whitespace-separated words scores 0 in every rubric dimension and
\* earns 0 Motivation points whatever it contains; a text of exactly min_words
\* words is scored (one that mentions a survey earns points when the cap is
\* positive).
C8_RubricGate ==
    MotivationScored =>
        \A i \in DOMAIN work.rows :
            LET r == work.rows[i]
                x == MotivationCell(r)
                n == IF is_str(x) THEN word_count(x.s) ELSE 0
            IN /\ (~is_str(x) \/ n < prm.min_mot_words) =>
                      /\ MotivationPtsOf(r) = 0
                      /\ variant = "app" =>
                            /\ r["_mot_specificity"] = 0
                            /\ r["_mot_feasibility"] = 0
                            /\ r["_mot_relevance"] = 0
               /\ (/\ is_str(x) /\ n = prm.min_mot_words
                   /\ contains(lower(x.s), "survey")
                   /\ prm.w_motivation > 0) => MotivationPtsOf(r) > 0

\* a text rich in keywords but one word short of min_words has gone through a
\* whole run and earned no Motivation points
C8_Witness ==
    /\ pc = "done"
    /\ \E i \in DOMAIN work.rows :
          LET x == MotivationCell(work.rows[i]) IN
          /\ is_str(x)
          /\ word_count(x.s) = prm.min_mot_words - 1
          /\ contains(x.s, "policy officer")
          /\ MotivationPtsOf(work.rows[i]) = 0

\* C9: the Sector of every output record is a value of the closed enumeration;
\* on the structured path a value of the enumeration is kept as it is and any
\* other value becomes Other/Unclassified.
C9_SectorTotality ==
    pc = "done" =>
        \A i \in DOMAIN pretty.rows :
            /\ pretty.rows[i]["Sector"] \in SECTORS
            /\ (variant = "app" /\ Mapped(colmap.sector_col, work)) =>
                  LET x == work.rows[i][colmap.sector_col] IN
                  pretty.rows[i]["Sector"] =
                      IF is_str(x) /\ x.s \in SECTORS THEN x.s ELSE "Other/Unclassified"

\* C9 on the free-text path alone (org_to_sector)
C9_SectorTotality_inferred ==
    (variant = "app" /\ Mapped(colmap.sector_col, work)) \/ C9_SectorTotality

\* the Alumni SubScore of output row i: the column of the review view, or, in
\* the script that shows none, what the record's AlumniReferral earns under w_alumni
AlumniSubScore(i) ==
    IF "AlumniPts" \in pretty.cols THEN pretty.rows[i]["AlumniPts"]
    ELSE apptest_yes_no_points(work.rows[i][apptest_cols.alm_col], Pts(prm.w_alumni))

\* C10: in both scripts the RFS of every output record is the sum of its seven
\* SubScores (Motivation, Sector, Referee, Function, Time, Language, Alumni)
\* rounded to two decimals.
C10_RfsIsSumOfSeven ==
    pc = "done" =>
        \A i \in DOMAIN pretty.rows :
            LET r == pretty.rows[i] IN
            r["RFS"] = round2(r["MotivationPts"] + r["SectorPts"] + r["RefereePts"]
                              + r["FunctionPts"] + r["TimePts"] + r["LanguagePts"]
                              + AlumniSubScore(i))

\* C10 for the script of src/app.py alone
C10_RfsIsSumOfSeven_app == variant = "app" => C10_RfsIsSumOfSeven

-----------------------------------------------------------------------------
(* Batch runs (SpecBatch): several applicants, identifiers and dates vary  *)

\* the most rows an uploaded batch has
MaxRows == 2

EmailValues == {Str("a@x.org"), Str(" A@X.org"), Str("b@x.org"), NaN}

DateValues == {Str("2024-01-01"), Str("2024-06-01"), Str("n/a")}

BatchRows ==
    {[c \in ROLES |-> IF c = "Email" THEN e
                      ELSE IF c = "ApplicationDate" THEN d
                      ELSE NaN] : e \in EmailValues, d \in DateValues}

Batches == UNION {[1..n -> BatchRows] : n \in 0..MaxRows}

\* the table frame without its column c
DropColumn(frame, c) ==
    Frame(frame.cols \ {c}, [i \in DOMAIN frame.rows |-> Without(frame.rows[i], {c})])

\* the batches are uploaded with an Email column, or without one
InitBatch ==
    /\ Fresh
    /\ secrets = [SALT |-> "s3cr3t"]
    /\ uploaded = TRUE
    /\ preset_choice = "balanced"
    /\ custom_mode = FALSE
    /\ equity_on = TRUE
    /\ df \in {Table(b) : b \in Batches} \cup {DropColumn(Table(b), "Email") : b \in Batches}
    /\ \/ /\ variant = "app"
          /\ custom = Seeded(PRESETS[preset_choice])
          /\ colmap \in {[MapNone EXCEPT !.email_col = e, !.date_col = d] :
                            e \in {NONE, "Email"}, d \in {NONE, "ApplicationDate"}}
       \/ /\ variant = "apptest"
          /\ custom = Seeded(apptest_PRESETS[preset_choice])
          /\ colmap = apptest_cols

SpecBatch == InitBatch /\ [][Next]_vars

\* the PID the script gives row i of the uploaded table
InputPID(i) ==
    IF variant = "app" /\ ~Mapped(colmap.email_col, df)
    THEN hash_id(SALT, "row_" \o ToString(i - 1))
    ELSE hash_id(SALT, normalize_email(df.rows[i]["Email"]))

\* C4: after a batch run of either script, the review view holds exactly one
\* row for each distinct PID of the input batch.
C4_OneRowPerPID ==
    pc = "done" =>
        /\ \A i, j \in DOMAIN pretty.rows :
              pretty.rows[i].PID = pretty.rows[j].PID => i = j
        /\ {pretty.rows[i].PID : i \in DOMAIN pretty.rows}
              = {InputPID(i) : i \in DOMAIN df.rows}

\* C4 for the script of src/app.py alone, which deduplicates
C4_OneRowPerPID_app == variant = "app" => C4_OneRowPerPID

\* the positions in the uploaded table of the rows that share the PID of row i
GroupOf(i) == {j \in DOMAIN df.rows : InputPID(j) = InputPID(i)}

\* the application date of uploaded row i
DateOf(i) == to_datetime(df.rows[i]["ApplicationDate"])

\* the position in the uploaded table of output row k
Origin(k) == pretty.rows[k].index + 1

\* C5: with an ApplicationDate column mapped, the survivor of every group of
\* rows sharing a PID is a row with the latest application date of the group;
\* with none mapped, the survivor is the first row of the group in input order
\* and the survivors keep their relative order.
C5_DedupPolicy ==
    (pc = "done" /\ variant = "app") =>
        \A k \in DOMAIN pretty.rows :
            IF Mapped(colmap.date_col, df)
            THEN \A j \in GroupOf(Origin(k)) :
                    DateOf(j) # NaT => /\ DateOf(Origin(k)) # NaT
                                       /\ DateOf(j) <= DateOf(Origin(k))
            ELSE /\ \A j \in GroupOf(Origin(k)) : Origin(k) <= j
                 /\ \A l \in DOMAIN pretty.rows : k < l => Origin(k) < Origin(l)

\* C5 for the groups in which every row has a date that parses
C5_DedupPolicy_dated ==
    (pc = "done" /\ variant = "app") =>
        \A k \in DOMAIN pretty.rows :
            IF Mapped(colmap.date_col, df)
            THEN (\A j \in GroupOf(Origin(k)) : DateOf(j) # NaT) =>
                    \A j \in GroupOf(Origin(k)) : DateOf(j) <= DateOf(Origin(k))
            ELSE /\ \A j \in GroupOf(Origin(k)) : Origin(k) <= j
                 /\ \A l \in DOMAIN pretty.rows : k < l => Origin(k) < Origin(l)

-----------------------------------------------------------------------------
(* Labelling (SpecLabel): the decision labels of two scored applicants     *)

\* how far, in hundredths of a point, the scores lie around each limit
Margin == 1

\* the sidebar values of a labelling run: those of a scoring run, and an admit
\* threshold that lies inside the equity band
LabelChoices(preset) ==
    CustomChoices(preset)
    \cup {[Seeded(preset) EXCEPT !.thr_admit = preset.equity_lower + 2]}

\* the scores, in hundredths, at and around the limits of a parameter set
Marks(p) ==
    {v \in {b * Cent + d : b \in {p.thr_admit, p.thr_priority, p.equity_lower,
                                  p.equity_upper},
                           d \in (0 - Margin)..Margin} : v >= 0}
    \cup {0, p.equity_upper * Cent + 50, 140 * Cent}

Scored(p) == {[RFS |-> v, sector |-> s] : v \in Marks(p), s \in {"Farmer Org", "Education"}}

InitLabel ==
    /\ pc = "label"
    /\ secrets = [SALT |-> "s3cr3t"]
    /\ SALT = secrets["SALT"]
    /\ work = NoFrame
    /\ pretty = NoFrame
    /\ download = NoFrame
    /\ uploaded = TRUE
    /\ df = NoFrame
    /\ \/ /\ variant = "app"
          /\ preset_choice \in DOMAIN PRESETS
          /\ colmap = MapNone
          /\ custom_mode \in BOOLEAN
          /\ equity_on \in BOOLEAN
          /\ custom \in (IF custom_mode THEN LabelChoices(PRESETS[preset_choice])
                         ELSE {Seeded(PRESETS[preset_choice])})
          /\ prm = resolve_parameters(PRESETS[preset_choice], custom_mode, custom, equity_on)
       \/ /\ variant = "apptest"
          /\ preset_choice \in DOMAIN apptest_PRESETS
          /\ colmap = apptest_cols
          /\ custom_mode = FALSE
          /\ equity_on = TRUE
          /\ custom = Seeded(apptest_PRESETS[preset_choice])
          /\ prm = apptest_parameters(apptest_PRESETS[preset_choice])
    /\ args \in [1..2 -> Scored(prm)]
    /\ ret = << >>

\* work.apply(lambda r: label_band(...), axis=1) over the scored rows
LabelRows ==
    /\ pc = "label"
    /\ ret' = [i \in DOMAIN args |->
                 label_band(args[i].RFS, prm.thr_admit, prm.thr_priority, args[i].sector,
                            prm.equity_on, <<prm.equity_lower, prm.equity_upper>>)]
    /\ pc' = "labelled"
    /\ UNCHANGED <<variant, secrets, preset_choice, custom_mode, custom, equity_on,
                   colmap, df, prm, work, pretty, download, SALT, uploaded, args>>

NextLabel == LabelRows

SpecLabel == InitLabel /\ [][NextLabel]_vars

InBand(v) == prm.equity_lower * Cent <= v /\ v <= prm.equity_upper * Cent

\* C2: the label of a score is Priority at or above the priority threshold;
\* otherwise Admit at or above the admit threshold; otherwise Reserve (Equity)
\* when equity is enabled, the sector is Farmer Org and the score lies in the
\* equity band, both ends included; otherwise Reserve.  So a Farmer Org record
\* at or above the admit threshold is never Reserve (Equity), and Reserve
\* (Equity) is never given with equity disabled or to another sector.
C2_LabelTable ==
    pc = "labelled" =>
        \A i \in DOMAIN args :
            LET v == args[i].RFS
                farmer == args[i].sector = "Farmer Org"
                high == v >= prm.thr_priority * Cent
                mid == v >= prm.thr_admit * Cent
                rescued == prm.equity_on /\ farmer /\ InBand(v)
            IN /\ high => ret[i] = "Priority"
               /\ (~high /\ mid) => ret[i] = "Admit"
               /\ (~high /\ ~mid /\ rescued) => ret[i] = "Reserve (Equity)"
               /\ (~high /\ ~mid /\ ~rescued) => ret[i] = "Reserve"
               /\ (farmer /\ mid) => ret[i] # "Reserve (Equity)"
               /\ (~prm.equity_on \/ ~farmer) => ret[i] # "Reserve (Equity)"

\* a Farmer Org record at the lower end of the equity band is labelled Reserve
\* (Equity) and another, in the band too but at the admit threshold, Admit
C2_Witness ==
    /\ pc = "labelled"
    /\ \E i, j \in DOMAIN args :
          /\ args[i].sector = "Farmer Org" /\ args[j].sector = "Farmer Org"
          /\ InBand(args[i].RFS) /\ InBand(args[j].RFS)
          /\ args[i].RFS = prm.equity_lower * Cent
          /\ ret[i] = "Reserve (Equity)"
          /\ ret[j] = "Admit"

Rank(label) == IF label = "Priority" THEN 2 ELSE IF label = "Admit" THEN 1 ELSE 0

\* C3: of two records of one sector labelled under one parameter set, the one
\* with the higher score never has the lower-ranked label, Priority ranking
\* above Admit and Admit above both kinds of Reserve; this holds with the
\* priority threshold below the admit threshold too.
C3_LabelMonotone ==
    pc = "labelled" =>
        \A i, j \in DOMAIN args :
            (args[i].sector = args[j].sector /\ args[i].RFS > args[j].RFS)
                => Rank(ret[i]) >= Rank(ret[j])

\* with the priority threshold below the admit threshold, a record at the admit
\* threshold is labelled Priority and a lower record of its sector Reserve
C3_Witness ==
    /\ pc = "labelled"
    /\ prm.thr_priority < prm.thr_admit
    /\ \E i, j \in DOMAIN args :
          /\ args[i].sector = args[j].sector
          /\ args[i].RFS = prm.thr_admit * Cent
          /\ args[i].RFS > args[j].RFS
          /\ ret[i] = "Priority"
          /\ Rank(ret[j]) = 0

-----------------------------------------------------------------------------
(* Confirmations (SpecConfirm): one referee or alumni value is read        *)

\* the longest confirmation text made of the letters below
MaxLen == 3

Letters == {"n", "o", "N", "p", " ", ","}

RECURSIVE Texts(_)
\* the texts of 1..n letters
Texts(n) ==
    IF n = 0 THEN {}
    ELSE Letters \cup Texts(n - 1) \cup {t \o c : t \in Texts(n - 1), c \in Letters}

ConfirmationValues ==
    {Str(t) : t \in Texts(MaxLen)}
    \cup {Str("no thanks"), Str("Jane Doe, jane@x.org"), Str("Norman Doe"), Str("None."),
          Str("not applicable"), Str("N/A"), Str("na"), Str("nah"), Str("yes"),
          Str("Yes, by a colleague"), Str("0"), Str("07700 900123"), Str("   "),
          Num("0"), Num("1"), Num("0.0"), NaN}

InitConfirm ==
    /\ pc = "confirm"
    /\ secrets = [SALT |-> "s3cr3t"]
    /\ SALT = secrets["SALT"]
    /\ work = NoFrame
    /\ pretty = NoFrame
    /\ download = NoFrame
    /\ uploaded = TRUE
    /\ df = NoFrame
    /\ equity_on = TRUE
    /\ \/ /\ variant = "app"
          /\ colmap = MapAll
          /\ \/ custom_mode = FALSE /\ preset_choice \in DOMAIN PRESETS
             \/ custom_mode = TRUE /\ preset_choice = "balanced"
          /\ custom \in (IF custom_mode THEN CustomChoices(PRESETS[preset_choice])
                         ELSE {Seeded(PRESETS[preset_choice])})
          /\ prm = resolve_parameters(PRESETS[preset_choice], custom_mode, custom, equity_on)
          /\ args \in [x : ConfirmationValues, col : {colmap.ref_col, colmap.alm_col}]
       \/ /\ variant = "apptest"
          /\ colmap = apptest_cols
          /\ custom_mode = FALSE
          /\ preset_choice \in DOMAIN apptest_PRESETS
          /\ custom = Seeded(apptest_PRESETS[preset_choice])
          /\ prm = apptest_parameters(apptest_PRESETS[preset_choice])
          /\ args \in [x : ConfirmationValues, col : {colmap.ref_col}]
    /\ ret = << >>

\* the cap the scripts pass with a value of the column
CapFor(col) == IF col = colmap.ref_col THEN Pts(prm.w_referee) ELSE Pts(prm.w_alumni)

\* work[col].apply(lambda x: yes_no_points(x, cap)), one value
ReadConfirmation ==
    /\ pc = "confirm"
    /\ ret' = IF variant = "app" THEN yes_no_points(args.x, CapFor(args.col))
              ELSE apptest_yes_no_points(args.x, CapFor(args.col))
    /\ pc' = "confirmed"
    /\ UNCHANGED <<variant, secrets, preset_choice, custom_mode, custom, equity_on,
                   colmap, df, prm, work, pretty, download, SALT, uploaded, args>>

NextConfirm == ReadConfirmation

SpecConfirm == InitConfirm /\ [][NextConfirm]_vars

\* the negative tokens each script lists
NegativeTokens ==
    IF variant = "app" THEN {"no", "none", "n/a", "na", "not applicable", "0"}
    ELSE {"no", "none", "n/a", "0"}

\* the value read, trimmed and in lower case
Trimmed == lower(strip(args.x.s))

HasText == ~isna(args.x) /\ Trimmed # ""

\* C6 as stated: a confirmation with text in it earns 0 when the trimmed,
\* lower-cased text begins with a negative token and the cap otherwise.
C6_PrefixAsymmetry ==
    (pc = "confirmed" /\ HasText) =>
        ret = IF \E p \in NegativeTokens : startswith(Trimmed, p) THEN 0
              ELSE CapFor(args.col)

\* a negative token that is the whole text or is followed by a space or a comma
LeadingToken(p) ==
    /\ startswith(Trimmed, p)
    /\ Len(Trimmed) > Len(p) => Ch(Trimmed, Len(p) + 1) \in {" ", ","}

\* C6: a confirmation with text in it earns 0 or the cap and nothing else: in
\* src/app.py 0 when the trimmed, lower-cased text is a negative token or
\* begins with one followed by a space or a comma, in src/apptest.py 0 when it
\* begins with a negative token, and the cap in every other case.
C6_TokenAsymmetry ==
    (pc = "confirmed" /\ HasText) =>
        /\ ret \in {0, CapFor(args.col)}
        /\ (ret = 0 /\ CapFor(args.col) > 0) <=>
              /\ CapFor(args.col) > 0
              /\ \E p \in NegativeTokens :
                    IF variant = "app" THEN LeadingToken(p) ELSE startswith(Trimmed, p)

\* src/app.py has read a text that begins with "no" and goes on with a letter,
\* and has given it the cap
C6_Witness ==
    /\ pc = "confirmed"
    /\ variant = "app"
    /\ HasText
    /\ startswith(Trimmed, "no")
    /\ ~LeadingToken("no")
    /\ CapFor(args.col) > 0
    /\ ret = CapFor(args.col)

\* C7: a missing, empty or whitespace-only referee or alumni value earns 0
\* points in both scripts.
C7_EmptyConfirmation ==
    (pc = "confirmed" /\ (isna(args.x) \/ strip(args.x.s) = "")) => ret = 0

\* C7 for the script of src/app.py alone
C7_EmptyConfirmation_app == variant = "app" => C7_EmptyConfirmation

-----------------------------------------------------------------------------
(* Further properties of a scoring run (Spec)                              *)

\* the FunctionTitle value of a scored row
FunctionCell(r) ==
    IF variant = "apptest" THEN r[apptest_cols.func_col]
    ELSE IF colmap.func_col \in DOMAIN r THEN r[colmap.func_col]
    ELSE NaN

\* C11: the scores of a record depend on the record's own fields and on the
\* resolved parameter values only, whichever preset name was selected: the
\* Function points a record has earned are those its FunctionTitle earns under
\* the same w_function with any other preset name selected.
C11_ParametersOnly ==
    (pc = "done" /\ variant = "app" /\ Mapped(colmap.func_col, df)) =>
        \A i \in DOMAIN work.rows : \A name \in DOMAIN PRESETS :
            work.rows[i]["_func_points"]
                = function_points(FunctionCell(work.rows[i]), name, prm.w_function)

\* C11 for the titles that name no finance role
C11_ParametersOnly_no_finance ==
    (\A i \in DOMAIN work.rows :
        ~(/\ is_str(FunctionCell(work.rows[i]))
          /\ any_in(lower(FunctionCell(work.rows[i]).s),
                    <<"finance", "financial", "accountant", "economist", "banking",
                      "treasury", "audit">>)))
    => C11_ParametersOnly

\* the fields of a resolved parameter set that hold a tunable value
ParameterFields ==
    {"thr_admit", "thr_priority", "equity_lower", "equity_upper", "w_motivation",
     "w_sector", "w_referee", "w_function", "w_time", "w_lang", "w_alumni",
     "sector_uplift", "min_mot_words"}

\* the fields the custom-mode widgets of the sidebar supply
WidgetFields == ParameterFields \ {"equity_lower", "equity_upper", "sector_uplift"}

\* the selected preset's value of a field
PresetValue(f) ==
    LET preset == PRESETS[preset_choice] IN
    IF f = "thr_admit" THEN preset.thresh_admit
    ELSE IF f = "thr_priority" THEN preset.thresh_priority
    ELSE IF f = "min_mot_words" THEN preset.min_motivation_words
    ELSE preset[f]

Resolved == pc \notin {"start", "sidebar", "missing_salt"}

\* C12: in custom mode every field of the resolved parameter set (thresholds,
\* equity band, the seven weight caps, sector-uplift table, min-word gate) is
\* the value the user supplied for that field; with custom mode off every
\* field is the selected preset's value.
C12_FullOverride ==
    (variant = "app" /\ Resolved) =>
        \A f \in ParameterFields :
            IF custom_mode THEN f \in DOMAIN custom /\ prm[f] = custom[f]
            ELSE prm[f] = PresetValue(f)

\* C12 with custom mode reaching the fields that have a widget and no others
C12_FullOverride_widgets ==
    (variant = "app" /\ Resolved) =>
        \A f \in ParameterFields :
            IF custom_mode /\ f \in WidgetFields THEN prm[f] = custom[f]
            ELSE prm[f] = PresetValue(f)

\* st.secrets has no SALT entry or an empty one
SaltMissing == "SALT" \notin DOMAIN secrets \/ secrets["SALT"] = ""

\* the PIDs of the working table
WorkPIDs == {work.rows[i]["PID"] : i \in {j \in DOMAIN work.rows : "PID" \in work.cols}}

\* C13: with the salt absent or empty the run reports the error and halts at
\* startup: no parameter is resolved, no identifier is hashed, nothing is
\* scored or shown, and no step follows.  With a salt, the global SALT is the
\* secret from the moment it is loaded to the end of the run, every PID is
\* hashed with it, and the run never ends in the missing-salt error.
C13_SaltGate ==
    /\ SaltMissing =>
          /\ pc \in {"start", "missing_salt"}
          /\ SALT = Unset
          /\ DOMAIN prm = {}
          /\ work = NoFrame /\ pretty = NoFrame /\ download = NoFrame
          /\ (pc = "start") => ENABLED Startup
          /\ (pc = "missing_salt") => ~ENABLED Next
    /\ ~SaltMissing =>
          /\ pc # "missing_salt"
          /\ SALT = (IF pc = "start" THEN Unset ELSE secrets["SALT"])
          /\ \A pid \in WorkPIDs : startswith(pid.sha256, secrets["SALT"])

\* a run without a usable salt has ended in the missing-salt error
C13_Witness ==
    /\ pc = "missing_salt"
    /\ "SALT" \in DOMAIN secrets
    /\ secrets["SALT"] = ""

\* a run with a salt has hashed an identifier with it and reached its end
C13_Witness_loaded ==
    /\ pc = "done"
    /\ ~SaltMissing
    /\ WorkPIDs # {}

\* the points column of the working table that each optional role feeds
SubScoreOfRole ==
    [mot_col |-> "MotivationPts", func_col |-> "FunctionPts", time_col |-> "TimePts",
     lang_col |-> "LanguagePts", ref_col |-> "RefereePts", alm_col |-> "AlumniPts"]

\* the role is mapped to a column the uploaded table has
RoleGiven(role) ==
    IF variant = "app" THEN Mapped(colmap[role], df) ELSE apptest_cols[role] \in df.cols

\* C14: a run of either script over an uploaded table never raises, whichever
\* optional columns are unmapped or absent and whatever the cells hold, and at
\* the end the review view has a scored row for the applicant in which the
\* SubScore of every role that was not given is 0 (Sector points too when
\* neither Sector nor Organisation is given).
C14_NoException ==
    /\ pc # "error"
    /\ (pc = "done" /\ Len(df.rows) = 1) =>
          /\ Len(pretty.rows) = 1
          /\ {"RFS", "predicted Decision"} \subseteq pretty.cols
          /\ \A role \in DOMAIN SubScoreOfRole :
                (~RoleGiven(role) /\ SubScoreOfRole[role] \in pretty.cols) =>
                    pretty.rows[1][SubScoreOfRole[role]] = 0
          /\ (~RoleGiven("org_col") /\ (variant = "app" => ~RoleGiven("sector_col")))
                => pretty.rows[1]["SectorPts"] = 0

\* C14 for the script of src/app.py alone
C14_NoException_app == variant = "app" => C14_NoException

\* the column of the uploaded table that holds the raw identifier, NONE when
\* no identifier is mapped
IdentifierColumn ==
    IF variant = "apptest" THEN apptest_cols.email_col
    ELSE IF Mapped(colmap.email_col, df) THEN colmap.email_col
    ELSE NONE

\* the raw identifier cells of the uploaded table
RawIdentifiers ==
    IF IdentifierColumn = NONE THEN {}
    ELSE {df.rows[i][IdentifierColumn] : i \in DOMAIN df.rows}

\* the texts that must stay out of the review view: the salt and the identifiers
PrivateTexts == {SALT} \cup {strip(x.s) : x \in {y \in RawIdentifiers : is_str(y)}}

\* the review view shows PID, Sector, RFS, the decision label and SubScores
\* only, and neither the salt nor a raw identifier is in any of its fields
ViewIsPrivate ==
    /\ pretty.cols \subseteq out_cols
    /\ \A i \in DOMAIN pretty.rows :
          /\ pretty.rows[i]["PID"] \notin RawIdentifiers
          /\ \A c \in {"Sector", "predicted Decision"} : \A t \in PrivateTexts :
                t # "" => ~contains(pretty.rows[i][c], t)

\* the export is the review view with the raw identifier column added
ExportIsViewPlusIdentifier ==
    /\ download.cols = pretty.cols \cup {"Email"}
    /\ Len(download.rows) = Len(pretty.rows)
    /\ \A i \in DOMAIN pretty.rows :
          /\ \A c \in pretty.cols : download.rows[i][c] = pretty.rows[i][c]
          /\ IdentifierColumn # NONE =>
                download.rows[i]["Email"]
                    = df.rows[pretty.rows[i].index + 1][IdentifierColumn]

\* C15: the review view never holds the raw identifier or the salt: its columns
\* are PID, Sector, RFS, decision label and SubScores only; the raw identifier
\* is in the export alone, and the export is the review view plus the original
\* identifier column.
C15_ViewPrivacy == pc = "done" => (ViewIsPrivate /\ ExportIsViewPlusIdentifier)

\* C15 for the review view alone, in both scripts
C15_ViewPrivacy_view == pc = "done" => ViewIsPrivate

\* C15 for the script of src/app.py alone
C15_ViewPrivacy_app == variant = "app" => C15_ViewPrivacy

-----------------------------------------------------------------------------
(* Further properties of batch runs (SpecBatch)                            *)

\* the raw identifier cell of the row of the working table at position i
RawIdentifierOf(i) == df.rows[work.rows[i].index + 1][IdentifierColumn]

\* the identifier trimmed and in lower case, a missing one being the empty text
Canonical(x) == IF isna(x) THEN "" ELSE lower(strip(x.s))

IsHex(t) == \A k \in 1..Len(t) : \E d \in 1..Len(HexDigits) : t[k] = HexDigits[d]

HasPIDs == "PID" \in work.cols /\ IdentifierColumn # NONE

\* C16: with an identifier column, the PID of every row is the hash of the
\* salt and the trimmed, lower-cased identifier and of nothing else: rows whose
\* identifiers differ only in letter case or surrounding whitespace have the
\* same PID, a missing identifier has the PID of the empty text, and every PID
\* is 16 hexadecimal characters.
C16_PidDeterminism ==
    HasPIDs =>
        \A i \in DOMAIN work.rows :
            LET pid == work.rows[i]["PID"] IN
            /\ pid = hash_id(secrets["SALT"], Canonical(RawIdentifierOf(i)))
            /\ isna(RawIdentifierOf(i)) => pid = hash_id(secrets["SALT"], "")
            /\ \A j \in DOMAIN work.rows :
                  Canonical(RawIdentifierOf(i)) = Canonical(RawIdentifierOf(j))
                      => work.rows[j]["PID"] = pid
            /\ Len(pid.hex) = 16
            /\ IsHex(pid.hex)

\* two rows whose identifiers differ in case and surrounding whitespace have
\* been given one PID
C16_Witness ==
    /\ HasPIDs
    /\ \E i, j \in DOMAIN work.rows :
          /\ RawIdentifierOf(i) = Str("a@x.org")
          /\ RawIdentifierOf(j) = Str(" A@X.org")
          /\ work.rows[i]["PID"] = work.rows[j]["PID"]


\* the texts the inputs put in column c
TextsOf(c) == {fv[2] : fv \in {f \in FieldValues : f[1] = c /\ is_str(f[2])}}

\* a band text without its case, its whitespace and its dash and >= variants
BandKey(v) ==
    LET x0 == strip(v.s)
        x1 == MapChars(x0, "dashes", Len(x0))
        x2 == MapChars(x1, "ge", Len(x1))
        xl == lower(x2)
    IN MapChars(xl, "nospace", Len(xl))

\* the time and language points a row would carry had it value v in column c
BandPoints(r, c, v) ==
    LET r2 == With(r, (c :> v)) IN
    IF variant = "app"
    THEN LET t == time_language_columns(r2, colmap, work, prm) IN
         [time |-> t["_time_points"], lang |-> t["_lang_points"]]
    ELSE LET t == apptest_other_columns(r2, prm) IN
         [time |-> t["TimePts"], lang |-> t["LanguagePts"]]

\* the rows carry their time and language points
HasBandPoints ==
    IF variant = "app"
    THEN /\ {"_time_points", "_lang_points"} \subseteq work.cols
         /\ Mapped(colmap.time_col, work) /\ Mapped(colmap.lang_col, work)
    ELSE {"TimePts", "LanguagePts"} \subseteq work.cols

\* the points the rows carry are those of BandPoints on their own values
OwnBandPoints(i) ==
    IF variant = "app"
    THEN [time |-> work.rows[i]["_time_points"], lang |-> work.rows[i]["_lang_points"]]
    ELSE [time |-> work.rows[i]["TimePts"], lang |-> work.rows[i]["LanguagePts"]]

\* the weekly time field: values with one BandKey earn the same time points
TimeCanonical ==
    HasBandPoints =>
        \A i \in DOMAIN work.rows :
            LET raw == work.rows[i][colmap.time_col] IN
            is_str(raw) =>
                \A v \in TextsOf("WeeklyTimeBand") :
                    BandKey(v) = BandKey(raw)
                        => BandPoints(work.rows[i], colmap.time_col, v).time
                               = OwnBandPoints(i).time

\* the language field: values with one BandKey earn the same language points
LangCanonical ==
    HasBandPoints =>
        \A i \in DOMAIN work.rows :
            LET raw == work.rows[i][colmap.lang_col] IN
            is_str(raw) =>
                \A v \in TextsOf("LanguageComfort") :
                    BandKey(v) = BandKey(raw)
                        => BandPoints(work.rows[i], colmap.lang_col, v).lang
                               = OwnBandPoints(i).lang

\* a value of no band earns no points, and a run on a table that has every
\* column does not stop on it
UnknownBandIsZero ==
    /\ (uploaded /\ ROLES \subseteq df.cols) => pc # "error"
    /\ (HasBandPoints /\ variant = "app") =>
           \A i \in DOMAIN work.rows :
               /\ work.rows[i]["_time_band"] = None => work.rows[i]["_time_points"] = 0
               /\ work.rows[i]["_lang_band"] = None => work.rows[i]["_lang_points"] = 0

\* C17: in both band fields (weekly time, language comfort) two values that
\* differ only in letter case, in whitespace or in the dash and >= variants
\* earn the same points, and a value of no band earns 0 points without error.
C17_BandCanonical == TimeCanonical /\ LangCanonical /\ UnknownBandIsZero

\* C17 for the weekly time field alone
C17_BandCanonical_time == TimeCanonical

\* C17 for the language field of src/apptest.py
C17_BandCanonical_apptest == variant = "apptest" => LangCanonical


\* a batch that has rows, and no Identifier column is mapped: none is
\* selected, or the table has none
NoIdentifier == uploaded /\ df.rows # << >> /\ ~Mapped(colmap.email_col, df)

\* C18: when no Identifier column is mapped, every row is hashed from its own
\* row-index token, so the PIDs are distinct, deduplication removes no row, and
\* the output has as many rows as the uploaded batch.
C18_FallbackIdentity ==
    NoIdentifier =>
        /\ pc # "error"
        /\ "PID" \in work.cols =>
              /\ Len(work.rows) = Len(df.rows)
              /\ \A i, j \in DOMAIN work.rows :
                    work.rows[i]["PID"] = work.rows[j]["PID"] => i = j
              /\ \A i \in DOMAIN work.rows :
                    work.rows[i]["PID"]
                        = hash_id(secrets["SALT"], "row_" \o ToString(work.rows[i].index))
        /\ pc = "done" => /\ Len(pretty.rows) = Len(df.rows)
                          /\ Len(download.rows) = Len(df.rows)

\* C18 for the script of src/app.py alone, which has the fallback
C18_FallbackIdentity_app == variant = "app" => C18_FallbackIdentity

\* a finished run of src/app.py on two rows with no Identifier column mapped
C18_Reached_app ==
    /\ variant = "app" /\ NoIdentifier /\ pc = "done"
    /\ Len(df.rows) = 2 /\ Len(pretty.rows) = 2
    /\ Mapped(colmap.date_col, df)


-----------------------------------------------------------------------------
(* Sector resolution (SpecSector): org_to_sector on organisation texts     *)

\* the categories org_to_sector looks for, in its order, with their keywords
SECTOR_RULES ==
    << [name |-> "Education", keys |-> <<"universit", "school", "educat">>],
       [name |-> "NGO/CSO", keys |-> <<"ngo", "foundation", "association", "civil",
                                       "non profit", "non-profit">>],
       [name |-> "Government", keys |-> <<"ministry", "gov", "municipal",
                                          "department of", "bureau">>],
       [name |-> "Multilateral", keys |-> <<"united nations", "world bank", "fao", "ifad",
                                            "ifpri", "undp", "unesco">>],
       [name |-> "Private", keys |-> <<"ltd", "company", "bv", "inc", "plc", "gmbh",
                                       "sarl">>],
       [name |-> "Farmer Org", keys |-> <<"farmer", "coop", "co-op", "cooperative">>],
       [name |-> "Consultancy", keys |-> <<"consult">>],
       [name |-> "Finance", keys |-> <<"bank", "finance", "microfinance">>] >>

\* the first and the last keyword of every category
Keywords == UNION {{SECTOR_RULES[c].keys[1], SECTOR_RULES[c].keys[Len(SECTOR_RULES[c].keys)]} :
                      c \in DOMAIN SECTOR_RULES}

\* the most keywords an organisation text is made of
MaxWords == 2

RECURSIVE JoinWords(_)
\* " ".join(ws)
JoinWords(ws) ==
    IF Len(ws) = 0 THEN ""
    ELSE IF Len(ws) = 1 THEN ws[1]
    ELSE ws[1] \o " " \o JoinWords(Tail(ws))

\* the organisation cells: keywords in every order, texts in mixed case, texts
\* of no category, empty and whitespace texts, and cells that are not texts
OrgCells ==
    {Str(JoinWords(ws)) : ws \in UNION {[1..n -> Keywords] : n \in 1..MaxWords}}
    \cup {Str(x) : x \in {"University Bank", "BANK OF THE UNIVERSITY", "Agri Bank Ltd",
                          "World Bank", "Farmers Cooperative Bank", "Acme Consulting Inc",
                          "School of Government", "XYZ", "Mango Growers", "", "  "}}
    \cup {NaN, Num("7")}

InitSector ==
    /\ pc = "sector_call"
    /\ secrets = [SALT |-> "s3cr3t"]
    /\ SALT = secrets["SALT"]
    /\ work = NoFrame
    /\ pretty = NoFrame
    /\ download = NoFrame
    /\ uploaded = TRUE
    /\ df = NoFrame
    /\ equity_on = TRUE
    /\ custom_mode = FALSE
    /\ preset_choice = "balanced"
    /\ \/ /\ variant = "app"
          /\ colmap = MapOrg
          /\ custom = Seeded(PRESETS[preset_choice])
          /\ prm = resolve_parameters(PRESETS[preset_choice], custom_mode, custom, equity_on)
       \/ /\ variant = "apptest"
          /\ colmap = apptest_cols
          /\ custom = Seeded(apptest_PRESETS[preset_choice])
          /\ prm = apptest_parameters(apptest_PRESETS[preset_choice])
    /\ args \in {[org_text |-> x] : x \in OrgCells}
    /\ ret = << >>

\* work[org_col].apply(org_to_sector), one cell
ClassifyOrganisation ==
    /\ pc = "sector_call"
    /\ ret' = org_to_sector(args.org_text)
    /\ pc' = "sector_return"
    /\ UNCHANGED <<variant, secrets, preset_choice, custom_mode, custom, equity_on,
                   colmap, df, prm, work, pretty, download, SALT, uploaded, args>>

NextSector == ClassifyOrganisation

SpecSector == InitSector /\ [][NextSector]_vars

\* the categories of which a keyword occurs in the text x
Matching(x) ==
    {c \in DOMAIN SECTOR_RULES :
        \E j \in DOMAIN SECTOR_RULES[c].keys : contains(x, SECTOR_RULES[c].keys[j])}

\* C19: org_to_sector returns the first category, in the order Education,
\* NGO/CSO, Government, Multilateral, Private, Farmer Org, Consultancy, Finance,
\* of which a keyword occurs in the lower-cased text, wherever the keywords
\* stand in the text, and Other/Unclassified when no keyword occurs or the
\* value is empty, blank or not a text.
C19_SectorFirstMatch ==
    pc = "sector_return" =>
        IF ~is_str(args.org_text) THEN ret = "Other/Unclassified"
        ELSE LET ms == Matching(lower(args.org_text.s)) IN
             IF ms = {} THEN ret = "Other/Unclassified"
             ELSE /\ ret = SECTOR_RULES[CHOOSE c \in ms : \A d \in ms : c <= d].name
                  /\ \A c \in ms : \A d \in DOMAIN SECTOR_RULES :
                        SECTOR_RULES[d].name = ret => d <= c

\* a text with a Finance keyword before an Education keyword is Education
C19_Witness ==
    /\ pc = "sector_return"
    /\ args.org_text = Str("bank universit")
    /\ ret = "Education"


-----------------------------------------------------------------------------
(* The highest score of a preset (Spec)                                    *)

\* the sum of the seven weight caps of the parameter set p, in points
CapSum(p) ==
    p.w_motivation + p.w_sector + p.w_referee + p.w_function + p.w_time + p.w_lang
        + p.w_alumni

\* the time points of the bands map_band can return, in points
TimePointValues == {get_time_points(b) : b \in WEEKLY_TIME_BANDS \cup {None}}

\* the most time points a record can earn under p, in points
TimeCeiling(p) ==
    Min2(CHOOSE m \in TimePointValues : \A n \in TimePointValues : n <= m, p.w_time)

\* a finished run of src/app.py under a named preset
NamedPresetRun == variant = "app" /\ ~custom_mode /\ pc = "done"

\* the run scored the applicant with the highest value in every field
ScoredBest == colmap = MapAll /\ df = Table(<<BestRow(PRESETS[preset_choice])>>)

\* C20: under every named preset no record scores above the sum of the seven
\* weight caps, and that sum is attained: a band earns the whole Time cap, also
\* when w_time is above 10, and the applicant with the highest value in every
\* field scores exactly the sum.
C20_AttainableMax ==
    NamedPresetRun =>
        /\ \A i \in DOMAIN pretty.rows : pretty.rows[i]["RFS"] <= CapSum(prm) * Cent
        /\ TimeCeiling(prm) = prm.w_time
        /\ ScoredBest => pretty.rows[1]["RFS"] = CapSum(prm) * Cent

\* C20 with the Time factor counted at the most points a band earns
C20_AttainableMax_time_ceiling ==
    NamedPresetRun =>
        /\ \A i \in DOMAIN pretty.rows :
              pretty.rows[i]["RFS"] <= (CapSum(prm) - prm.w_time + TimeCeiling(prm)) * Cent
        /\ ScoredBest =>
              pretty.rows[1]["RFS"] = (CapSum(prm) - prm.w_time + TimeCeiling(prm)) * Cent

\* the best applicant of a preset whose w_time is above 10 has been scored
C20_Reached_best ==
    NamedPresetRun /\ ScoredBest /\ prm.w_time > 10


-----------------------------------------------------------------------------
(* The equity band and the admit threshold (Spec, SpecLabel)               *)

\* a finished run under a named preset with the equity reserve enabled
EquityRun == pc = "done" /\ ~custom_mode /\ prm.equity_on

\* C21: under every named preset with the equity reserve enabled, every Farmer
\* Org record the run scores with an RFS of at least equity_lower and strictly
\* below the admit threshold is labelled Reserve (Equity), fractional scores
\* between equity_upper and the admit threshold included.
C21_NoGap ==
    EquityRun =>
        \A i \in DOMAIN pretty.rows :
            LET r == pretty.rows[i] IN
            (/\ r["Sector"] = "Farmer Org"
             /\ prm.equity_lower * Cent <= r["RFS"]
             /\ r["RFS"] < prm.thr_admit * Cent)
                => r["predicted Decision"] = "Reserve (Equity)"

\* C21 for the scores up to equity_upper, both ends of the band included
C21_NoGap_band ==
    EquityRun =>
        \A i \in DOMAIN pretty.rows :
            LET r == pretty.rows[i] IN
            (/\ r["Sector"] = "Farmer Org"
             /\ prm.equity_lower * Cent <= r["RFS"]
             /\ r["RFS"] <= prm.equity_upper * Cent
             /\ r["RFS"] < prm.thr_admit * Cent)
                => r["predicted Decision"] = "Reserve (Equity)"

\* a Farmer Org record scored between equity_upper and the admit threshold
C21_Reached_gap ==
    /\ EquityRun
    /\ \E i \in DOMAIN pretty.rows :
          /\ pretty.rows[i]["Sector"] = "Farmer Org"
          /\ prm.equity_upper * Cent < pretty.rows[i]["RFS"]
          /\ pretty.rows[i]["RFS"] < prm.thr_admit * Cent


-----------------------------------------------------------------------------
(* Undated rows and rows without an identifier in batch runs (SpecBatch)   *)

\* a finished batch run of src/app.py that deduplicated by application date
DatedDedup == pc = "done" /\ variant = "app" /\ Mapped(colmap.date_col, df)

\* C22: with an ApplicationDate column mapped, the survivor of a group of rows
\* sharing a PID is never a row whose date is missing or does not parse when
\* the group has a row with a date that parses; it is then the row with the
\* greatest such date.
C22_DatedPreferred ==
    DatedDedup =>
        \A k \in DOMAIN pretty.rows :
            LET dated == {j \in GroupOf(Origin(k)) : DateOf(j) # NaT} IN
            dated # {} =>
                /\ Origin(k) \in dated
                /\ \A j \in dated : DateOf(j) <= DateOf(Origin(k))

\* C22 for the groups that hold no undated row
C22_DatedPreferred_all_dated ==
    DatedDedup =>
        \A k \in DOMAIN pretty.rows :
            LET g == GroupOf(Origin(k)) IN
            (\A j \in g : DateOf(j) # NaT) =>
                \A j \in g : DateOf(j) <= DateOf(Origin(k))

\* a group of a dated and an undated row went through the date-aware dedup
C22_Reached_mixed ==
    /\ DatedDedup
    /\ \E i, j \in DOMAIN df.rows :
          /\ i # j /\ InputPID(i) = InputPID(j)
          /\ DateOf(i) # NaT /\ DateOf(j) = NaT


\* a finished batch run with an Identifier column mapped
IdentifiedRun == pc = "done" /\ Mapped(colmap.email_col, df)

\* the normalised identifier of uploaded row i
IdentifierOf(i) == normalize_email(df.rows[i][colmap.email_col])

\* the uploaded rows that reach the review view
Survivors == {Origin(k) : k \in DOMAIN pretty.rows}

\* C23: with an Identifier column mapped, a row is removed only if another row
\* of the batch carries the same non-empty normalised identifier; rows whose
\* identifier is missing or empty are not collapsed into one another and all
\* appear in the output.
C23_NoApplicantLost ==
    IdentifiedRun =>
        /\ \A i \in (DOMAIN df.rows) \ Survivors :
              /\ IdentifierOf(i) # ""
              /\ \E j \in (DOMAIN df.rows) \ {i} : IdentifierOf(j) = IdentifierOf(i)
        /\ \A i \in DOMAIN df.rows : IdentifierOf(i) = "" => i \in Survivors

\* C23 for the rows that carry an identifier
C23_NoApplicantLost_identified ==
    IdentifiedRun =>
        \A i \in (DOMAIN df.rows) \ Survivors :
            IdentifierOf(i) # "" =>
                \E j \in (DOMAIN df.rows) \ {i} : IdentifierOf(j) = IdentifierOf(i)

\* a batch of two rows without identifier went through a run of src/app.py
C23_Reached_missing ==
    /\ IdentifiedRun /\ variant = "app"
    /\ Len(df.rows) = 2
    /\ IdentifierOf(1) = "" /\ IdentifierOf(2) = ""

====
